---- MODULE Spec2Model ----
(***************************************************************************)
(* Model of v-and-r (src/v-and-r.py): semantic-version arithmetic, the     *)
(* FileManager (pattern expansion, scanning, in-place update), the         *)
(* increment workflow of CLIInterface with its rollback protocol, and      *)
(* release-info assembly over the GitManager.                              *)
(*                                                                         *)
(* Text is modelled as sequences of one-character strings.  File content   *)
(* is a sequence of tokens: a token is either text no rule's regex matches *)
(* or the text of one template rendered with one version string.           *)
(***************************************************************************)
EXTENDS Integers, Sequences, FiniteSets, TLC

\* ------------------------------------------------------------------ bounds
MaxContentLen == 2
MaxTags == 2
MaxVersions == 2

\* ------------------------------------------------------------- characters
Digits == {"0", "1", "2", "3", "4", "5", "6", "7", "8", "9"}

DigitVal(c) ==
    CASE c = "0" -> 0 [] c = "1" -> 1 [] c = "2" -> 2 [] c = "3" -> 3
      [] c = "4" -> 4 [] c = "5" -> 5 [] c = "6" -> 6 [] c = "7" -> 7
      [] c = "8" -> 8 [] c = "9" -> 9

DigitChar(d) ==
    CASE d = 0 -> "0" [] d = 1 -> "1" [] d = 2 -> "2" [] d = 3 -> "3"
      [] d = 4 -> "4" [] d = 5 -> "5" [] d = 6 -> "6" [] d = 7 -> "7"
      [] d = 8 -> "8" [] d = 9 -> "9"

\* code point of the characters the model uses (ordering of sorted())
CharOrd(c) ==
    CASE c = " " -> 32 [] c = "*" -> 42 [] c = "." -> 46 [] c = "/" -> 47
      [] c \in Digits -> 48 + DigitVal(c)
      [] c = "?" -> 63 [] c = "R" -> 82 [] c = "a" -> 97 [] c = "b" -> 98
      [] c = "s" -> 115 [] c = "v" -> 118
      [] OTHER -> 120

RECURSIVE StrLess(_, _)
StrLess(a, b) ==
    IF b = <<>> THEN FALSE
    ELSE IF a = <<>> THEN TRUE
    ELSE IF Head(a) # Head(b) THEN CharOrd(Head(a)) < CharOrd(Head(b))
    ELSE StrLess(Tail(a), Tail(b))

\* str.strip(): drop leading and trailing whitespace
RECURSIVE LStrip(_)
LStrip(s) == IF s # <<>> /\ Head(s) = " " THEN LStrip(Tail(s)) ELSE s

RECURSIVE RStrip(_)
RStrip(s) ==
    IF s # <<>> /\ s[Len(s)] = " " THEN RStrip(SubSeq(s, 1, Len(s) - 1)) ELSE s

Strip(s) == RStrip(LStrip(s))

\* int(digits) and str(n)
RECURSIVE StrToInt(_)
StrToInt(s) ==
    IF s = <<>> THEN 0
    ELSE 10 * StrToInt(SubSeq(s, 1, Len(s) - 1)) + DigitVal(s[Len(s)])

RECURSIVE IntToStr(_)
IntToStr(n) ==
    IF n < 10 THEN <<DigitChar(n)>>
    ELSE IntToStr(n \div 10) \o <<DigitChar(n % 10)>>

IsDigits(s) == s # <<>> /\ \A i \in 1..Len(s) : s[i] \in Digits

\* ------------------------------------------------------- VersionManager
\* raised VersionError, as a value no version string or triple equals
VersionErr == <<"VersionError">>

\* version_pattern  ^v?(\d+)\.(\d+)\.(\d+)$  applied with match()
VersionPatternGroups(s) ==
    LET body == IF s # <<>> /\ Head(s) = "v" THEN Tail(s) ELSE s
        dots == {i \in 1..Len(body) : body[i] = "."}
    IN  IF Cardinality(dots) # 2 THEN VersionErr
        ELSE LET d1 == CHOOSE i \in dots : \A j \in dots : i <= j
                 d2 == CHOOSE i \in dots : \A j \in dots : j <= i
                 g1 == SubSeq(body, 1, d1 - 1)
                 g2 == SubSeq(body, d1 + 1, d2 - 1)
                 g3 == SubSeq(body, d2 + 1, Len(body))
             IN  IF IsDigits(g1) /\ IsDigits(g2) /\ IsDigits(g3)
                 THEN <<g1, g2, g3>> ELSE VersionErr

parse_version(version_string) ==
    IF version_string = <<>> THEN VersionErr
    ELSE LET g == VersionPatternGroups(Strip(version_string))
         IN  IF g = VersionErr THEN VersionErr
             ELSE <<StrToInt(g[1]), StrToInt(g[2]), StrToInt(g[3])>>

\* Version.__lt__ on (major, minor, patch)
VersionLt(a, b) ==
    IF a[1] # b[1] THEN a[1] < b[1]
    ELSE IF a[2] # b[2] THEN a[2] < b[2]
    ELSE a[3] < b[3]

VersionEq(a, b) == a[1] = b[1] /\ a[2] = b[2] /\ a[3] = b[3]
VersionLe(a, b) == VersionLt(a, b) \/ VersionEq(a, b)
VersionGt(a, b) == ~VersionLe(a, b)

PrefixOf(version) ==
    LET t == Strip(version) IN IF t # <<>> /\ Head(t) = "v" THEN <<"v">> ELSE <<>>

RenderTriple(prefix, ma, mi, pa) ==
    prefix \o IntToStr(ma) \o <<".">> \o IntToStr(mi) \o <<".">> \o IntToStr(pa)

\* variant: returns the first valid element instead of the maximum
find_highest_version_first(versions) ==
    LET valid == {i \in 1..Len(versions) : parse_version(versions[i]) # VersionErr}
    IN  IF versions = <<>> \/ valid = {} THEN VersionErr
        ELSE versions[CHOOSE i \in valid : \A j \in valid : i <= j]

\* max(valid_versions, key=...): the first element no later one exceeds
find_highest_version(versions) ==
    LET valid == {i \in 1..Len(versions) : parse_version(versions[i]) # VersionErr}
    IN  IF versions = <<>> \/ valid = {} THEN VersionErr
        ELSE LET k == CHOOSE i \in valid :
                        /\ \A j \in valid :
                             ~VersionGt(parse_version(versions[j]), parse_version(versions[i]))
                        /\ \A j \in valid :
                             j < i => VersionLt(parse_version(versions[j]),
                                                parse_version(versions[i]))
             IN  versions[k]

increment_patch(version) ==
    LET p == parse_version(version)
    IN  IF p = VersionErr THEN VersionErr
        ELSE RenderTriple(PrefixOf(version), p[1], p[2], p[3] + 1)

\* variant: the patch component is kept
increment_minor_keeps_patch(version) ==
    LET p == parse_version(version)
    IN  IF p = VersionErr THEN VersionErr
        ELSE RenderTriple(PrefixOf(version), p[1], p[2] + 1, p[3])

increment_minor(version) ==
    LET p == parse_version(version)
    IN  IF p = VersionErr THEN VersionErr
        ELSE RenderTriple(PrefixOf(version), p[1], p[2] + 1, 0)

increment_major(version) ==
    LET p == parse_version(version)
    IN  IF p = VersionErr THEN VersionErr
        ELSE RenderTriple(PrefixOf(version), p[1] + 1, 0, 0)

\* ------------------------------------------------------------ file content
\* text no rule's regex matches
Other == [tpl |-> 0, ver |-> <<>>]

\* the text of template tpl rendered with version string ver
Marker(tpl, ver) == [tpl |-> tpl, ver |-> ver]

V123 == <<"v", "1", ".", "2", ".", "3">>
V122 == <<"v", "1", ".", "2", ".", "2">>
V199 == <<"v", "1", ".", "9", ".", "9">>
VersionStrings == {V123, V122, V199}

\* ------------------------------------------------------------ the registry
P_R == <<"R">>
P_SA == <<"s", "/", "a">>
P_SB == <<"s", "/", "b">>
L_S == <<"s", "/", "*">>
AllPaths == {P_R, P_SA, P_SB}

\* VERSION_FILES: a literal locator and two rules on one glob locator; every
\* regex is <text>(v\d+\.\d+\.\d+)<text> and every template <text>{version}<text>
VERSION_FILES ==
    << [file_pattern |-> P_R, tpl |-> 1, unknown_placeholder |-> FALSE],
       [file_pattern |-> L_S, tpl |-> 2, unknown_placeholder |-> FALSE],
       [file_pattern |-> L_S, tpl |-> 3, unknown_placeholder |-> FALSE] >>

file_configs == VERSION_FILES

\* regex_pattern.search(content) on one token: the rule's literal text around
\* a capture group  v\d+\.\d+\.\d+
RegexMatches(config, tok) ==
    /\ tok.tpl = config.tpl
    /\ tok.ver # <<>>
    /\ Head(tok.ver) = "v"
    /\ VersionPatternGroups(tok.ver) # VersionErr

\* variant: takes the first token for the match without applying the regex
SearchIndex_first_token(config, content) == IF content = <<>> THEN 0 ELSE 1

\* index of the first match of the regex in the content, 0 when none
SearchIndex(config, content) ==
    LET hits == {i \in 1..Len(content) : RegexMatches(config, content[i])}
    IN  IF hits = {} THEN 0 ELSE CHOOSE i \in hits : \A j \in hits : i <= j

\* ------------------------------------------------------------------ paths
HasWildcard(pattern) == \E i \in 1..Len(pattern) : pattern[i] \in {"*", "?"}

\* fnmatch.fnmatch: '*' is any run of characters ('/' included), '?' any one
RECURSIVE Fnmatch(_, _)
Fnmatch(name, pat) ==
    IF pat = <<>> THEN name = <<>>
    ELSE IF Head(pat) = "*"
         THEN Fnmatch(name, Tail(pat)) \/ (name # <<>> /\ Fnmatch(Tail(name), pat))
    ELSE IF Head(pat) = "?"
         THEN name # <<>> /\ Fnmatch(Tail(name), Tail(pat))
    ELSE name # <<>> /\ Head(name) = Head(pat) /\ Fnmatch(Tail(name), Tail(pat))

_file_matches_pattern(file_path, pattern) ==
    IF HasWildcard(pattern) THEN Fnmatch(file_path, pattern)
    ELSE file_path = pattern

\* path.split('/')
RECURSIVE Split(_)
Split(path) ==
    LET slashes == {i \in 1..Len(path) : path[i] = "/"}
    IN  IF slashes = {} THEN <<path>>
        ELSE LET k == CHOOSE i \in slashes : \A j \in slashes : i <= j
             IN  <<SubSeq(path, 1, k - 1)>> \o Split(SubSeq(path, k + 1, Len(path)))

\* glob.glob(pattern, recursive=True) over the files on disk: wildcards stay
\* inside one path segment and skip dot-names, '**' spans whole segments
GlobSegment(name, pat) ==
    IF HasWildcard(pat)
    THEN /\ name # <<>>
         /\ (Head(name) = "." => Head(pat) = ".")
         /\ Fnmatch(name, pat)
    ELSE name = pat

RECURSIVE GlobSegments(_, _)
GlobSegments(names, pats) ==
    IF pats = <<>> THEN names = <<>>
    ELSE IF Head(pats) = <<"*", "*">>
         THEN \/ GlobSegments(names, Tail(pats))
              \/ /\ names # <<>>
                 /\ (Head(names) = <<>> \/ Head(Head(names)) # ".")
                 /\ GlobSegments(Tail(names), pats)
    ELSE /\ names # <<>>
         /\ GlobSegment(Head(names), Head(pats))
         /\ GlobSegments(Tail(names), Tail(pats))

Glob(pattern, disk) ==
    {p \in DOMAIN disk : GlobSegments(Split(p), Split(pattern))}

\* sorted(list(set(...)))
RECURSIVE SortedSeq(_)
SortedSeq(S) ==
    IF S = {} THEN <<>>
    ELSE LET m == CHOOSE x \in S : \A y \in S \ {x} : StrLess(x, y)
         IN  <<m>> \o SortedSeq(S \ {m})

\* FileManager.expand_file_patterns of the object self
FileManager_expand_file_patterns(self, disk) ==
    LET found(i) ==
            LET pattern == self.file_configs[i].file_pattern
            IN  IF HasWildcard(pattern) THEN Glob(pattern, disk)
                ELSE IF pattern \in DOMAIN disk THEN {pattern} ELSE {}
    IN  SortedSeq(UNION {found(i) : i \in 1..Len(self.file_configs)})

\* variant: the last configuration whose locator matches
FileManager_matching_config_last(self, file_path) ==
    LET hits == {i \in 1..Len(self.file_configs) :
                    _file_matches_pattern(file_path, self.file_configs[i].file_pattern)}
    IN  IF hits = {} THEN 0 ELSE CHOOSE i \in hits : \A j \in hits : i >= j

\* index of the first configuration of self whose locator matches the path,
\* 0 if none
FileManager_matching_config(self, file_path) ==
    LET hits == {i \in 1..Len(self.file_configs) :
                    _file_matches_pattern(file_path, self.file_configs[i].file_pattern)}
    IN  IF hits = {} THEN 0 ELSE CHOOSE i \in hits : \A j \in hits : i <= j

\* CLIInterface.file_manager, built from VERSION_FILES
cli_file_manager == [constructed |-> TRUE, file_configs |-> file_configs]

expand_file_patterns(disk) == FileManager_expand_file_patterns(cli_file_manager, disk)

matching_config(file_path) == FileManager_matching_config(cli_file_manager, file_path)

\* --------------------------------------------------------------- file I/O
\* what the operating system does to one read-modify-write of one file
\* ("read_fail": the read raises IOError or UnicodeDecodeError)
IOChoices ==
    {[kind |-> x, k |-> 0] : x \in {"ok", "read_fail", "open_fail"}}
      \cup {[kind |-> "write_fail", k |-> k] : k \in 0..(MaxContentLen - 1)}

IOok == [kind |-> "ok", k |-> 0]

ReadFails(disk, file_path, io) ==
    file_path \notin DOMAIN disk \/ io.kind = "read_fail"

Min(a, b) == IF a < b THEN a ELSE b

\* open(path, 'w') truncates; a failing write leaves a proper prefix behind
Truncated(content, k) == SubSeq(content, 1, Min(k, Len(content) - 1))

\* content.replace(old_match, new_text): every occurrence
StrReplace(content, old, new) ==
    [i \in 1..Len(content) |-> IF content[i] = old THEN new ELSE content[i]]

\* FileManager.update_file_version; status "true"/"false" is the returned
\* bool, "FileError" the raised error; disk is the file system afterwards
FileManager_update_file_version(self, disk, file_path, new_version, io) ==
    LET c == FileManager_matching_config(self, file_path)
        unchanged(st) == [status |-> st, disk |-> disk, opened_w |-> FALSE]
    IN  IF c = 0 THEN unchanged("FileError")
        ELSE IF ReadFails(disk, file_path, io) THEN unchanged("FileError")
        ELSE LET content == disk[file_path]
                 m == SearchIndex(self.file_configs[c], content)
             IN  IF m = 0 THEN unchanged("false")
                 ELSE IF self.file_configs[c].unknown_placeholder THEN unchanged("FileError")
                 ELSE LET old_match == content[m]
                          new_text == Marker(self.file_configs[c].tpl, new_version)
                          updated_content == StrReplace(content, old_match, new_text)
                      IN  CASE io.kind = "open_fail" -> unchanged("FileError")
                            [] io.kind = "write_fail" ->
                                 [status |-> "FileError",
                                  disk |-> [disk EXCEPT ![file_path] =
                                               Truncated(updated_content, io.k)],
                                  opened_w |-> TRUE]
                            [] OTHER ->
                                 [status |-> "true",
                                  disk |-> [disk EXCEPT ![file_path] = updated_content],
                                  opened_w |-> TRUE]

update_file_version(disk, file_path, new_version, io) ==
    FileManager_update_file_version(cli_file_manager, disk, file_path, new_version, io)

\* variant: a file that cannot be read is left out and the scan goes on
FileManager_find_versions_in_files_lenient(self, disk, unreadable) ==
    LET expanded_files == FileManager_expand_file_patterns(self, disk)
        configured == {i \in 1..Len(expanded_files) :
                          FileManager_matching_config(self, expanded_files[i]) # 0}
        hit(i) == SearchIndex(
                      self.file_configs[FileManager_matching_config(self, expanded_files[i])],
                      disk[expanded_files[i]])
        found == {expanded_files[i] :
                     i \in {j \in configured : ~unreadable[expanded_files[j]] /\ hit(j) # 0}}
        pos(path) == CHOOSE i \in 1..Len(expanded_files) : expanded_files[i] = path
    IN  [status |-> "ok",
         versions_found |-> [q \in found |-> disk[q][hit(pos(q))].ver],
         reads |-> {expanded_files[i] : i \in configured}]

\* FileManager.find_versions_in_files; unreadable(p) says the read of p fails
FileManager_find_versions_in_files(self, disk, unreadable) ==
    LET expanded_files == FileManager_expand_file_patterns(self, disk)
        configured == {i \in 1..Len(expanded_files) :
                          FileManager_matching_config(self, expanded_files[i]) # 0}
        failing == {i \in configured : unreadable[expanded_files[i]]}
        hit(i) == SearchIndex(
                      self.file_configs[FileManager_matching_config(self, expanded_files[i])],
                      disk[expanded_files[i]])
        found == {expanded_files[i] : i \in {j \in configured : hit(j) # 0}}
        pos(path) == CHOOSE i \in 1..Len(expanded_files) : expanded_files[i] = path
    IN  IF failing # {}
        THEN [status |-> "FileError",
              versions_found |-> [q \in {} |-> <<>>],
              reads |-> {expanded_files[i] :
                            i \in {j \in configured : \A f \in failing : j <= f}}]
        ELSE [status |-> "ok",
              versions_found |-> [q \in found |-> disk[q][hit(pos(q))].ver],
              reads |-> {expanded_files[i] : i \in configured}]

find_versions_in_files(disk, unreadable) ==
    FileManager_find_versions_in_files(cli_file_manager, disk, unreadable)

\* list(versions_found.values()): insertion order is the scan order
RECURSIVE ValuesInOrder(_, _)
ValuesInOrder(map, order) ==
    IF order = <<>> THEN <<>>
    ELSE (IF Head(order) \in DOMAIN map THEN <<map[Head(order)]>> ELSE <<>>)
            \o ValuesInOrder(map, Tail(order))

\* variant: no except clause, a FileError of one file leaves the loop
update_all_files_step_raises(acc, file_path, new_version, io) ==
    LET r == update_file_version(acc.disk, file_path, new_version, io)
    IN  IF r.status = "FileError"
        THEN [acc EXCEPT !.disk = r.disk, !.raised = TRUE,
                         !.opened_w = @ \cup (IF r.opened_w THEN {file_path} ELSE {})]
        ELSE [results |-> [q \in DOMAIN acc.results \cup {file_path} |->
                             IF q = file_path THEN r.status = "true" ELSE acc.results[q]],
              disk |-> r.disk,
              opened_w |-> acc.opened_w \cup (IF r.opened_w THEN {file_path} ELSE {}),
              raised |-> acc.raised]

\* one step of the loop of FileManager.update_all_files
update_all_files_step(acc, file_path, new_version, io) ==
    LET r == update_file_version(acc.disk, file_path, new_version, io)
    IN  [results |-> [q \in DOMAIN acc.results \cup {file_path} |->
                         IF q = file_path THEN r.status = "true" ELSE acc.results[q]],
         disk |-> r.disk,
         opened_w |-> acc.opened_w \cup (IF r.opened_w THEN {file_path} ELSE {}),
         raised |-> acc.raised]

RECURSIVE update_all_files_loop(_, _, _, _)
update_all_files_loop(acc, todo, new_version, ios) ==
    IF todo = <<>> \/ acc.raised THEN acc
    ELSE update_all_files_loop(
             update_all_files_step(acc, Head(todo), new_version, ios[Head(todo)]),
             Tail(todo), new_version, ios)

\* FileManager.update_all_files; ios gives the I/O outcome of each path
update_all_files(disk, new_version, ios) ==
    update_all_files_loop(
        [results |-> [q \in {} |-> FALSE], disk |-> disk, opened_w |-> {}, raised |-> FALSE],
        expand_file_patterns(disk), new_version, ios)

\* ------------------------------------------------------------ user input
LowerChar(c) ==
    CASE c = "Y" -> "y" [] c = "E" -> "e" [] c = "S" -> "s" [] c = "N" -> "n"
      [] OTHER -> c

\* input(...).strip().lower()
Normalise(text) == LET t == Strip(text) IN [i \in 1..Len(t) |-> LowerChar(t[i])]

\* what input() does at a prompt: a line of text, or EOFError / KeyboardInterrupt
Inputs ==
    {[kind |-> "text", text |-> t] :
        t \in {<<"y">>, <<" ", "Y", "E", "S">>, <<"n">>}}
      \cup {[kind |-> k, text |-> <<>>] : k \in {"EOFError", "KeyboardInterrupt"}}

NoInput == [kind |-> "none", text |-> <<>>]

\* variant: any line of text counts as consent
Accepts_any(ev) == ev.kind = "text"

\* confirmation in ['y', 'yes']
Accepts(ev) == ev.kind = "text" /\ Normalise(ev.text) \in {<<"y">>, <<"y", "e", "s">>}

\* ------------------------------------------------------------------ state
VARIABLES
    files,              \* the file system: path -> content, for the files that exist
    pre_files,          \* the file system when the operation started
    pc,                 \* position of _execute_increment_command
    increment_type,     \* its argument
    versions_found,     \* result of the scan
    new_version,        \* the computed new version string
    confirm_in,         \* what input() gave at the confirmation prompt
    files_to_update,    \* expand_file_patterns() taken after the confirmation
    original_contents,  \* snapshots: path -> content
    backup_failed,      \* paths whose backup read failed (warned about)
    update_results,     \* path -> bool
    failed_files,       \* paths whose update raised FileError
    idx,                \* position of the running loop
    rollback_in,        \* what input() gave at the rollback prompt
    rollback_mode,      \* "none", "user" (chosen at the prompt) or "auto"
    w_opened,           \* paths opened for write by the update loop
    rb_opened,          \* paths opened for write by _rollback_file_changes
    rb_attempted,       \* paths _rollback_file_changes tried to write back
    rollback_errors,    \* paths it reported as not rolled back
    io_failed,          \* some file operation of the run failed
    exit_code,          \* the returned exit code, -1 while running
    fm_call,            \* the FileManager call made and what it returned
    rel,                \* state of generate_release_info
    vm_call,            \* the VersionManager call made and what it returned
    git,                \* the GitManager call made, the commands it ran, its outcome
    file_manager,       \* the FileManager object built by FileManager(...)
    main                \* the execute_command call made and the code it returned

wfVars == <<pc, increment_type, versions_found, new_version, confirm_in,
            files_to_update, original_contents, backup_failed, update_results,
            failed_files, idx, rollback_in, rollback_mode, w_opened, rb_opened, rb_attempted,
            rollback_errors, io_failed, exit_code>>

\* the objects of the command-line layer
topVars == <<file_manager, main>>

libVars == <<vm_call, git, topVars>>

vars == <<files, pre_files, wfVars, fm_call, rel, libVars>>

EmptyMap == [q \in {} |-> <<>>]
NoCall == [op |-> "none"]
NoRel == [pc |-> "none"]

\* no VersionManager or GitManager call is being observed
NoObject == [constructed |-> FALSE, file_configs |-> <<>>]
TopIdle == file_manager = NoObject /\ main = NoCall

LibIdle == vm_call = NoCall /\ git = NoCall /\ TopIdle

\* ------------------------------------------------- the increment workflow
IncrementTypes == {"patch", "minor", "major"}

TplFor(path) == file_configs[matching_config(path)].tpl

\* contents the workflow starts from: a file without a version marker, or
\* one whose marker carries one of the version strings
WfVersions == {V123, V122}

WfContents(path) ==
    {<<Other>>} \cup {<<Marker(TplFor(path), v)>> : v \in WfVersions}

WfDisks ==
    UNION {{d \in [D -> UNION {WfContents(q) : q \in D}] :
               \A q \in D : d[q] \in WfContents(q)} : D \in SUBSET AllPaths}

\* the locals of the workflow before its first statement; "off" when the
\* workflow is not the operation under study
WfLocals(position) ==
    /\ pc = position
    /\ increment_type = "none"
    /\ versions_found = EmptyMap
    /\ new_version = <<>>
    /\ confirm_in = NoInput
    /\ files_to_update = <<>>
    /\ original_contents = EmptyMap
    /\ backup_failed = {}
    /\ update_results = EmptyMap
    /\ failed_files = {}
    /\ idx = 0
    /\ rollback_in = NoInput
    /\ rollback_mode = "none"
    /\ w_opened = {}
    /\ rb_opened = {}
    /\ rb_attempted = {}
    /\ rollback_errors = {}
    /\ io_failed = FALSE
    /\ exit_code = -1

Init ==
    /\ files \in WfDisks
    /\ pre_files = files
    /\ WfLocals("scan")
    /\ fm_call = NoCall
    /\ rel = NoRel
    /\ LibIdle

Return(code) == pc' = "done" /\ exit_code' = code

\* variant: a "patch" increment gives the version back unchanged
IncrementBy_patch_unchanged(type, version) ==
    CASE type = "patch" -> version
      [] type = "minor" -> increment_minor(version)
      [] type = "major" -> increment_major(version)

IncrementBy(type, version) ==
    CASE type = "patch" -> increment_patch(version)
      [] type = "minor" -> increment_minor(version)
      [] type = "major" -> increment_major(version)

\* lines 1166-1197: scan, highest version, new version
ScanAndCompute(type, unreadable) ==
    LET scan == find_versions_in_files(files, unreadable)
        current_version ==
            find_highest_version(ValuesInOrder(scan.versions_found,
                                               expand_file_patterns(files)))
    IN  /\ pc = "scan"
        /\ increment_type' = type
        /\ io_failed' = (scan.status = "FileError")
        /\ versions_found' = scan.versions_found
        /\ IF scan.status = "FileError" \/ scan.versions_found = EmptyMap
              \/ current_version = VersionErr
           THEN /\ Return(1)
                /\ UNCHANGED new_version
           ELSE /\ new_version' = IncrementBy(type, current_version)
                /\ pc' = "confirm"
                /\ UNCHANGED exit_code
        /\ UNCHANGED <<files, pre_files, confirm_in, files_to_update,
                       original_contents, backup_failed, update_results, failed_files, idx,
                       rollback_in, rollback_mode, w_opened, rb_opened,
                       rb_attempted, rollback_errors, fm_call, rel, libVars>>

\* lines 1200-1215: the confirmation prompt
Confirm(ev) ==
    /\ pc = "confirm"
    /\ confirm_in' = ev
    /\ IF Accepts(ev)
       THEN /\ pc' = "backup"
            /\ files_to_update' = expand_file_patterns(files)
            /\ UNCHANGED exit_code
       ELSE /\ Return(0)
            /\ UNCHANGED files_to_update
    /\ UNCHANGED <<files, pre_files, increment_type, versions_found, new_version,
                   original_contents, backup_failed, update_results, failed_files, idx,
                   rollback_in, rollback_mode, w_opened, rb_opened, rb_attempted,
                   rollback_errors, io_failed, fm_call, rel, libVars>>

SeqToSet(sq) == {sq[i] : i \in 1..Len(sq)}

\* variant: the backup loop starts at the second path
Backup_skips_first(unreadable) ==
    LET rest == SeqToSet(files_to_update) \ {files_to_update[1]}
        saved == {q \in rest : ~unreadable[q]}
    IN  /\ pc = "backup"
        /\ original_contents' = [q \in saved |-> files[q]]
        /\ backup_failed' = rest \ saved
        /\ io_failed' = (io_failed \/ saved # rest)
        /\ pc' = "update"
        /\ idx' = 1
        /\ UNCHANGED <<files, pre_files, increment_type, versions_found,
                       new_version, confirm_in, files_to_update, update_results,
                       failed_files, rollback_in, rollback_mode, w_opened,
                       rb_opened, rb_attempted, rollback_errors, exit_code,
                       fm_call, rel, libVars>>

\* lines 1217-1227: read every file for backup; a failed read is only warned
Backup(unreadable) ==
    LET saved == {q \in SeqToSet(files_to_update) : ~unreadable[q]}
    IN  /\ pc = "backup"
        /\ original_contents' = [q \in saved |-> files[q]]
        /\ backup_failed' = SeqToSet(files_to_update) \ saved
        /\ io_failed' = (io_failed \/ saved # SeqToSet(files_to_update))
        /\ pc' = "update"
        /\ idx' = 1
        /\ UNCHANGED <<files, pre_files, increment_type, versions_found,
                       new_version, confirm_in, files_to_update, update_results,
                       failed_files, rollback_in, rollback_mode, w_opened,
                       rb_opened, rb_attempted, rollback_errors, exit_code,
                       fm_call, rel, libVars>>

\* lines 1229-1245: one iteration of the update loop
UpdateStep(io) ==
    /\ pc = "update"
    /\ idx <= Len(files_to_update)
    /\ LET file_path == files_to_update[idx]
           r == update_file_version(files, file_path, new_version, io)
       IN  /\ files' = r.disk
           /\ update_results' =
                  [q \in DOMAIN update_results \cup {file_path} |->
                      IF q = file_path THEN r.status = "true" ELSE update_results[q]]
           /\ failed_files' =
                  IF r.status = "FileError" THEN failed_files \cup {file_path}
                  ELSE failed_files
           /\ w_opened' = IF r.opened_w THEN w_opened \cup {file_path} ELSE w_opened
           /\ io_failed' = (io_failed \/ r.status = "FileError")
    /\ idx' = idx + 1
    /\ UNCHANGED <<pre_files, pc, increment_type, versions_found, new_version,
                   confirm_in, files_to_update, original_contents, backup_failed,
                   rollback_in, rollback_mode, rb_opened, rb_attempted, rollback_errors,
                   exit_code, fm_call, rel, libVars>>

\* original_contents.items(): insertion order
RollbackOrder == SelectSeq(files_to_update, LAMBDA q : q \in DOMAIN original_contents)

successful_updates == Cardinality({q \in DOMAIN update_results : update_results[q]})

\* variant: failed files do not change the exit code of a run that updated some
Report_ignores_failures ==
    IF successful_updates > 0
    THEN /\ Return(0)
         /\ UNCHANGED <<idx, rollback_mode>>
    ELSE IF original_contents # EmptyMap
    THEN /\ pc' = "rollback"
         /\ rollback_mode' = "auto"
         /\ idx' = 1
         /\ UNCHANGED exit_code
    ELSE /\ Return(1)
         /\ UNCHANGED <<idx, rollback_mode>>

\* lines 1267-1293: the report after the loop (and after a declined rollback)
Report ==
    IF successful_updates > 0
    THEN /\ Return(IF failed_files = {} THEN 0 ELSE 1)
         /\ UNCHANGED <<idx, rollback_mode>>
    ELSE IF original_contents # EmptyMap
    THEN /\ pc' = "rollback"
         /\ rollback_mode' = "auto"
         /\ idx' = 1
         /\ UNCHANGED exit_code
    ELSE /\ Return(1)
         /\ UNCHANGED <<idx, rollback_mode>>

\* variant: failed files start the rollback whatever the answer at the prompt
AfterUpdates_rolls_back_unasked(ev) ==
    /\ pc = "update"
    /\ idx > Len(files_to_update)
    /\ IF failed_files # {}
       THEN /\ rollback_in' = ev
            /\ pc' = "rollback"
            /\ rollback_mode' = "user"
            /\ idx' = 1
            /\ UNCHANGED exit_code
       ELSE /\ ev = NoInput
            /\ UNCHANGED rollback_in
            /\ Report
    /\ UNCHANGED <<files, pre_files, increment_type, versions_found, new_version,
                   confirm_in, files_to_update, original_contents, backup_failed,
                   update_results, failed_files, w_opened, rb_opened, rb_attempted,
                   rollback_errors, io_failed, fm_call, rel, libVars>>

\* lines 1249-1266 and on: the loop is over
AfterUpdates(ev) ==
    /\ pc = "update"
    /\ idx > Len(files_to_update)
    /\ IF failed_files # {}
       THEN /\ rollback_in' = ev
            /\ IF Accepts(ev)
               THEN /\ pc' = "rollback"
                    /\ rollback_mode' = "user"
                    /\ idx' = 1
                    /\ UNCHANGED exit_code
               ELSE Report
       ELSE /\ ev = NoInput
            /\ UNCHANGED rollback_in
            /\ Report
    /\ UNCHANGED <<files, pre_files, increment_type, versions_found, new_version,
                   confirm_in, files_to_update, original_contents, backup_failed,
                   update_results, failed_files, w_opened, rb_opened, rb_attempted,
                   rollback_errors, io_failed, fm_call, rel, libVars>>

\* what the operating system does to one write-back
WriteChoices ==
    {[kind |-> x, k |-> 0] : x \in {"ok", "open_fail"}}
      \cup {[kind |-> "write_fail", k |-> k] : k \in 0..(MaxContentLen - 1)}

\* variant: writes every snapshot back, whatever the update result
rollback_step_all(file_path, io) ==
    /\ rb_attempted' = rb_attempted \cup {file_path}
    /\ CASE io.kind = "open_fail" ->
               /\ rollback_errors' = rollback_errors \cup {file_path}
               /\ UNCHANGED <<files, rb_opened>>
         [] io.kind = "write_fail" ->
               /\ rollback_errors' = rollback_errors \cup {file_path}
               /\ files' = [files EXCEPT ![file_path] =
                               Truncated(original_contents[file_path], io.k)]
               /\ rb_opened' = rb_opened \cup {file_path}
         [] OTHER ->
               /\ files' = [files EXCEPT ![file_path] = original_contents[file_path]]
               /\ rb_opened' = rb_opened \cup {file_path}
               /\ UNCHANGED rollback_errors
    /\ io_failed' = (io_failed \/ io.kind # "ok")

\* one iteration of the loop of _rollback_file_changes (lines 1313-1323)
rollback_step(file_path, io) ==
    IF file_path \in DOMAIN update_results /\ update_results[file_path]
    THEN /\ rb_attempted' = rb_attempted \cup {file_path}
         /\ CASE io.kind = "open_fail" ->
                    /\ rollback_errors' = rollback_errors \cup {file_path}
                    /\ UNCHANGED <<files, rb_opened>>
              [] io.kind = "write_fail" ->
                    /\ rollback_errors' = rollback_errors \cup {file_path}
                    /\ files' = [files EXCEPT ![file_path] =
                                    Truncated(original_contents[file_path], io.k)]
                    /\ rb_opened' = rb_opened \cup {file_path}
              [] OTHER ->
                    /\ files' = [files EXCEPT ![file_path] = original_contents[file_path]]
                    /\ rb_opened' = rb_opened \cup {file_path}
                    /\ UNCHANGED rollback_errors
         /\ io_failed' = (io_failed \/ io.kind # "ok")
    ELSE /\ io = IOok
         /\ UNCHANGED <<files, rb_opened, rb_attempted, rollback_errors, io_failed>>

\* variant: the first failed write-back ends the loop
RollbackStep_stops_on_error(io) ==
    /\ pc = "rollback"
    /\ idx <= Len(RollbackOrder)
    /\ rollback_step(RollbackOrder[idx], io)
    /\ idx' = IF io.kind = "ok" THEN idx + 1 ELSE Len(RollbackOrder) + 1
    /\ UNCHANGED <<pre_files, pc, increment_type, versions_found, new_version,
                   confirm_in, files_to_update, original_contents, backup_failed,
                   update_results, failed_files, rollback_in, rollback_mode, w_opened,
                   exit_code, fm_call, rel, libVars>>

\* the loop of _rollback_file_changes, one path per step
RollbackStep(io) ==
    /\ pc = "rollback"
    /\ idx <= Len(RollbackOrder)
    /\ rollback_step(RollbackOrder[idx], io)
    /\ idx' = idx + 1
    /\ UNCHANGED <<pre_files, pc, increment_type, versions_found, new_version,
                   confirm_in, files_to_update, original_contents, backup_failed,
                   update_results, failed_files, rollback_in, rollback_mode, w_opened,
                   exit_code,
                   fm_call, rel, libVars>>

\* lines 1263 and 1293: both callers of the rollback return 1
RollbackDone ==
    /\ pc = "rollback"
    /\ idx > Len(RollbackOrder)
    /\ Return(1)
    /\ UNCHANGED <<files, pre_files, increment_type, versions_found, new_version,
                   confirm_in, files_to_update, original_contents, backup_failed,
                   update_results, failed_files, idx, rollback_in, rollback_mode, w_opened,
                   rb_opened, rb_attempted, rollback_errors, io_failed, fm_call, rel, libVars>>

Next ==
    \/ \E type \in IncrementTypes, unreadable \in [AllPaths -> BOOLEAN] :
          ScanAndCompute(type, unreadable)
    \/ \E ev \in Inputs : Confirm(ev)
    \/ \E unreadable \in [AllPaths -> BOOLEAN] : Backup(unreadable)
    \/ \E io \in IOChoices : UpdateStep(io)
    \/ \E ev \in Inputs \cup {NoInput} : AfterUpdates(ev)
    \/ \E io \in WriteChoices : RollbackStep(io)
    \/ RollbackDone

Spec == Init /\ [][Next]_vars

\* ==================================================================
\* Properties of the increment workflow (checked under Spec)
\* ==================================================================
Updated == {q \in DOMAIN update_results : update_results[q]}

RollbackFinished == pc = "done" /\ rollback_mode # "none"

PositionIn(sq, x) == CHOOSE i \in 1..Len(sq) : sq[i] = x

\* C1 (as claimed): after a rollback every file whose update result is true
\* has its pre-batch content again, and no other file was opened for write.
C1_AsClaimed ==
    RollbackFinished =>
        /\ \A q \in Updated : files[q] = pre_files[q]
        /\ rb_opened \subseteq Updated

\* C1 (amended): the rollback attempts to write back exactly the files whose
\* update result is true and that have a snapshot; such a file has its
\* pre-batch content again unless its write-back was reported as failed; no
\* file whose result is false or absent is ever opened for write by it.
C1_RollbackRestoresUpdated ==
    /\ rb_opened \subseteq Updated
    /\ rb_attempted \subseteq Updated \cap DOMAIN original_contents
    /\ RollbackFinished =>
          \A q \in Updated \cap DOMAIN original_contents :
              /\ q \in rb_attempted
              /\ q \notin rollback_errors => (q \in rb_opened /\ files[q] = pre_files[q])

C1_Witness ==
    /\ RollbackFinished
    /\ Len(files_to_update) = 3
    /\ Cardinality(Updated) = 2
    /\ rb_opened = Updated
    /\ rollback_errors = {}
    /\ files = pre_files

\* C2 (as claimed): no path is updated without a snapshot of it.
C2_AsClaimed == \A q \in Updated : q \in DOMAIN original_contents

\* C2 (amended): before the first file is mutated the snapshot read has been
\* attempted for every path of files_to_update; a snapshot with the full
\* original content is held for every path whose read succeeded, and the
\* paths whose read failed (warned about) are the only ones without one.
C2_SnapshotsBeforeMutation ==
    /\ pc \in {"scan", "confirm", "backup"} =>
          (files = pre_files /\ w_opened = {} /\ update_results = EmptyMap)
    /\ pc \in {"update", "rollback"} \/ update_results # EmptyMap =>
          /\ DOMAIN original_contents \cup backup_failed = SeqToSet(files_to_update)
          /\ DOMAIN original_contents \cap backup_failed = {}
          /\ \A q \in DOMAIN original_contents : original_contents[q] = pre_files[q]

C2_Witness ==
    /\ pc = "update"
    /\ Len(files_to_update) = 3
    /\ \E q \in backup_failed : q \in Updated /\ files[q] # pre_files[q]
    /\ \E q \in DOMAIN original_contents : q \in Updated

\* C3: when the rollback is over, every successfully updated path with a
\* snapshot has been attempted, also the ones after a failed write-back, and a
\* path that was attempted and does not have its snapshot content is reported.
C3_RollbackContinuesAfterFailure ==
    RollbackFinished =>
        /\ \A q \in Updated \cap DOMAIN original_contents : q \in rb_attempted
        /\ \A q \in rb_attempted :
              files[q] # original_contents[q] => q \in rollback_errors

C3_Witness ==
    /\ RollbackFinished
    /\ \E q1, q2 \in rb_attempted :
          /\ PositionIn(files_to_update, q1) < PositionIn(files_to_update, q2)
          /\ q1 \in rollback_errors
          /\ q2 \notin rollback_errors
          /\ files[q2] = pre_files[q2]

\* the numerically greatest of a set of (major, minor, patch) triples
MaxTriple(S) == CHOOSE t \in S : \A u \in S : ~VersionLt(t, u)

Bump(type, t) ==
    CASE type = "patch" -> <<t[1], t[2], t[3] + 1>>
      [] type = "minor" -> <<t[1], t[2] + 1, 0>>
      [] type = "major" -> <<t[1] + 1, 0, 0>>

\* the paths of the starting file system whose content their rule matches
MarkedPaths ==
    {q \in DOMAIN pre_files :
        SearchIndex(file_configs[matching_config(q)], pre_files[q]) # 0}

MarkedVersion(q) ==
    pre_files[q][SearchIndex(file_configs[matching_config(q)], pre_files[q])].ver

V130 == <<"v", "1", ".", "3", ".", "0">>

\* C4: a confirmed run without I/O failure computes one new version, the
\* increment of the highest scanned version, and every file that had a version
\* match carries exactly that string afterwards (v1.2.3, v1.2.2, v1.2.3 with
\* "minor" gives v1.3.0 in all three files).
C4_IncrementEndToEnd ==
    (pc = "done" /\ update_results # EmptyMap /\ ~io_failed) =>
        /\ parse_version(new_version) =
              Bump(increment_type, MaxTriple({parse_version(MarkedVersion(q)) : q \in MarkedPaths}))
        /\ \A q \in MarkedPaths :
              /\ update_results[q]
              /\ \E i \in 1..Len(files[q]) : files[q][i] = Marker(TplFor(q), new_version)
              /\ \A i \in 1..Len(files[q]) : files[q][i].tpl = TplFor(q) => files[q][i].ver = new_version
        /\ exit_code = 0
        /\ (/\ increment_type = "minor"
            /\ {MarkedVersion(q) : q \in MarkedPaths} = {V123, V122}) => new_version = V130

C4_Witness ==
    /\ pc = "done"
    /\ ~io_failed
    /\ increment_type = "minor"
    /\ MarkedPaths = AllPaths
    /\ MarkedVersion(P_R) = V123 /\ MarkedVersion(P_SA) = V122 /\ MarkedVersion(P_SB) = V123
    /\ \A q \in AllPaths : files[q] = <<Marker(TplFor(q), V130)>>

\* the answer, trimmed and lower-cased, is neither "y" nor "yes", or the
\* prompt ended with EOF or a keyboard interrupt
Declines(ev) ==
    \/ ev.kind \in {"EOFError", "KeyboardInterrupt"}
    \/ ev.kind = "text" /\ Normalise(ev.text) \notin {<<"y">>, <<"y", "e", "s">>}

\* C9: when the user declines the confirmation the workflow ends with exit
\* code 0 and no file has been opened for write or changed.
C9_DeclineWritesNothing ==
    Declines(confirm_in) =>
        /\ pc = "done"
        /\ exit_code = 0
        /\ files = pre_files
        /\ w_opened = {} /\ rb_opened = {}
        /\ update_results = EmptyMap

C9_Witness ==
    /\ pc = "done"
    /\ confirm_in.kind = "KeyboardInterrupt"
    /\ exit_code = 0
    /\ MarkedPaths # {}

\* ==================================================================
\* The FileManager called directly: one call on a file system (SpecFM)
\* ==================================================================
V200 == <<"v", "2", ".", "0", ".", "0">>
N200 == <<"2", ".", "0", ".", "0">>
NewVersions == {V200, N200}

\* a path no rule of the registry matches
P_X == <<"x">>

\* every content of at most MaxContentLen tokens over other text and the
\* path's own markers
RECURSIVE SeqsUpTo(_, _)
SeqsUpTo(S, n) ==
    IF n = 0 THEN {<<>>}
    ELSE LET shorter == SeqsUpTo(S, n - 1)
         IN  shorter \cup {Append(c, t) : c \in {d \in shorter : Len(d) = n - 1}, t \in S}

FmTokens(path) == {Other} \cup {Marker(TplFor(path), v) : v \in WfVersions}

FmContents(path) ==
    IF path = P_R THEN SeqsUpTo(FmTokens(path), MaxContentLen)
    ELSE {<<Other>>, <<Marker(TplFor(path), V123)>>}

FmDisks ==
    UNION {{d \in [D -> UNION {FmContents(q) : q \in D}] :
               \A q \in D : d[q] \in FmContents(q)} : D \in SUBSET AllPaths}

InitFM ==
    /\ files \in FmDisks
    /\ pre_files = files
    /\ WfLocals("off")
    /\ fm_call = NoCall
    /\ rel = NoRel
    /\ LibIdle

CallUpdateFileVersion(file_path, to_version, io) ==
    LET r == update_file_version(files, file_path, to_version, io)
    IN  /\ fm_call = NoCall
        /\ files' = r.disk
        /\ fm_call' = [op |-> "update_file_version", file_path |-> file_path,
                       new_version |-> to_version, io |-> io,
                       status |-> r.status, opened_w |-> r.opened_w]
        /\ UNCHANGED <<pre_files, wfVars, rel, libVars>>

CallUpdateAllFiles(to_version, ios) ==
    LET r == update_all_files(files, to_version, ios)
    IN  /\ fm_call = NoCall
        /\ files' = r.disk
        /\ fm_call' = [op |-> "update_all_files", new_version |-> to_version,
                       ios |-> ios, results |-> r.results, raised |-> r.raised,
                       opened_w |-> r.opened_w]
        /\ UNCHANGED <<pre_files, wfVars, rel, libVars>>

NextFM ==
    \/ \E file_path \in AllPaths \cup {P_X}, to_version \in NewVersions, io \in IOChoices :
          CallUpdateFileVersion(file_path, to_version, io)
    \/ \E to_version \in NewVersions, ios \in [AllPaths -> IOChoices] :
          CallUpdateAllFiles(to_version, ios)

SpecFM == InitFM /\ [][NextFM]_vars

\* ------------------------------------------------------------------
\* Properties of update_file_version and update_all_files (under SpecFM)
\* ------------------------------------------------------------------
Returned(operation) == fm_call.op = operation

\* the tokens of the starting content the path's rule matches
MatchesAt(path) ==
    {i \in 1..Len(pre_files[path]) :
        RegexMatches(file_configs[matching_config(path)], pre_files[path][i])}

FirstMatch(path) == CHOOSE i \in MatchesAt(path) : \A j \in MatchesAt(path) : i <= j

\* C5: when update_file_version returns true, exactly the first match has
\* become the template rendered with the new version and every other part of
\* the content, a later occurrence of the same text included, is as before.
C5_AsClaimed ==
    (Returned("update_file_version") /\ fm_call.status = "true") =>
        LET path == fm_call.file_path
        IN  files = [pre_files EXCEPT ![path] =
                        [@ EXCEPT ![FirstMatch(path)] =
                            Marker(TplFor(path), fm_call.new_version)]]

\* C6: update_file_version on a readable file without a match returns false
\* and leaves the file system as it was, without opening the file for write.
C6_NoMatchNoWrite ==
    (/\ Returned("update_file_version")
     /\ fm_call.file_path \in DOMAIN pre_files
     /\ fm_call.io.kind # "read_fail"
     /\ MatchesAt(fm_call.file_path) = {}) =>
        /\ fm_call.status = "false"
        /\ ~fm_call.opened_w
        /\ files = pre_files

C6_Witness ==
    /\ Returned("update_file_version")
    /\ fm_call.file_path = P_R
    /\ fm_call.status = "false"
    /\ pre_files[P_R] = <<Other, Other>>
    /\ files = pre_files

\* C7: when update_file_version fails with a file-access error the file has
\* the content it had before the call.
C7_AsClaimed ==
    (Returned("update_file_version") /\ fm_call.status = "FileError") =>
        files = pre_files

\* C8: update_all_files does not raise; its map has one entry for every path
\* of expand(), true exactly for the files that had a match and whose read and
\* write went through, whatever happened to the other paths, and those files
\* carry the new version.
C8_BatchContainsFailures ==
    Returned("update_all_files") =>
        /\ ~fm_call.raised
        /\ DOMAIN fm_call.results = SeqToSet(expand_file_patterns(pre_files))
        /\ DOMAIN fm_call.results = DOMAIN pre_files
        /\ \A q \in DOMAIN fm_call.results :
              /\ fm_call.results[q] = (MatchesAt(q) # {} /\ fm_call.ios[q].kind = "ok")
              /\ fm_call.results[q] =>
                    files[q][FirstMatch(q)] = Marker(TplFor(q), fm_call.new_version)
              /\ (MatchesAt(q) = {} \/ fm_call.ios[q].kind \in
                      {"read_fail", "open_fail"}) =>
                    files[q] = pre_files[q]

C8_Witness ==
    /\ Returned("update_all_files")
    /\ DOMAIN fm_call.results = AllPaths
    /\ Cardinality({q \in AllPaths : fm_call.results[q]}) = 1
    /\ fm_call.results[P_SB]
    /\ MatchesAt(P_R) = {} /\ fm_call.ios[P_R].kind = "ok"
    /\ MatchesAt(P_SA) # {} /\ fm_call.ios[P_SA].kind = "write_fail"

\* ==================================================================
\* generate_release_info over the GitManager (SpecRelease)
\* ==================================================================
NoneValue == <<"None">>

\* outcome of one GitManager call: the raised GitError or the returned value
GitErr == [raised |-> TRUE, value |-> <<>>]
Returns(value) == [raised |-> FALSE, value |-> value]

N123 == <<"1", ".", "2", ".", "3">>
NotATag == <<"x">>

\* what `git tag -l` can print, one tag per line
RawTags == {V123, V122, N123, NotATag, <<>>}
RawTagLists == SeqsUpTo(RawTags, MaxTags)

\* list.sort(key=parse_version, reverse=True): stable, highest first
RECURSIVE SortTagsDescending(_)
SortTagsDescending(tags) ==
    IF tags = <<>> THEN <<>>
    ELSE LET front == SortTagsDescending(SubSeq(tags, 1, Len(tags) - 1))
             x == tags[Len(tags)]
             smaller == {i \in 1..Len(front) :
                            VersionLt(parse_version(front[i]), parse_version(x))}
             at == IF smaller = {} THEN Len(front) + 1
                   ELSE CHOOSE i \in smaller : \A j \in smaller : i <= j
         IN  SubSeq(front, 1, at - 1) \o <<x>> \o SubSeq(front, at, Len(front))

\* variant: the version tags in the order the tool printed them
get_git_tags_unsorted(lines) ==
    LET tags == SelectSeq([i \in 1..Len(lines) |-> Strip(lines[i])], LAMBDA t : t # <<>>)
    IN  SelectSeq(tags, LAMBDA t : parse_version(t) # VersionErr)

\* GitManager.get_git_tags on the lines the tool printed (lines 541-567)
get_git_tags(lines) ==
    LET tags == SelectSeq([i \in 1..Len(lines) |-> Strip(lines[i])], LAMBDA t : t # <<>>)
        version_tags == SelectSeq(tags, LAMBDA t : parse_version(t) # VersionErr)
    IN  SortTagsDescending(version_tags)

\* what a log query can return
CommitLists == {<<>>, <<"c2">>, <<"c2", "c1">>}

HashOutcomes == {"GitError", "abc1234"}
TagOutcomes == {GitErr} \cup {Returns(lines) : lines \in RawTagLists}
LogOutcomes == {GitErr} \cup {Returns(commits) : commits \in CommitLists}

RelDisks == {d \in WfDisks : P_R \in DOMAIN d}

RelStart ==
    [pc |-> "version", version |-> <<>>, probe |-> "unasked", commit_hash |-> "unknown",
     commits |-> <<>>, previous_version |-> NoneValue, calls |-> <<>>,
     raised |-> <<>>, tags |-> <<>>, since_tag |-> NoneValue, log |-> <<>>]

InitRelease ==
    /\ files \in RelDisks
    /\ pre_files = files
    /\ WfLocals("off")
    /\ fm_call = NoCall
    /\ rel = RelStart
    /\ LibIdle

RelUnchanged == UNCHANGED <<files, pre_files, wfVars, fm_call, libVars>>

\* the GitManager operations called so far, and whether each raised GitError
Called(operation) == Append(rel.calls, operation)
Outcome(did_raise) == Append(rel.raised, did_raise)

\* lines 1344-1352: the current version from the files
RelVersion(unreadable) ==
    LET scan == find_versions_in_files(files, unreadable)
        current_version ==
            find_highest_version(ValuesInOrder(scan.versions_found,
                                               expand_file_patterns(files)))
    IN  /\ rel.pc = "version"
        /\ rel' = IF scan.status = "FileError" \/ scan.versions_found = EmptyMap
                     \/ current_version = VersionErr
                  THEN [rel EXCEPT !.pc = "raised"]
                  ELSE [rel EXCEPT !.pc = "probe", !.version = current_version]
        /\ RelUnchanged

\* variant: the answer of the probe is not looked at
RelProbe_ignores_answer(is_repo) ==
    /\ rel.pc = "probe"
    /\ rel' = [rel EXCEPT !.pc = "hash",
                          !.probe = IF is_repo THEN "tracked" ELSE "untracked",
                          !.calls = Called("is_git_repository"),
                          !.raised = Outcome(FALSE)]
    /\ RelUnchanged

\* line 1363 (and 1404-1413 when not tracked)
RelProbe(is_repo) ==
    /\ rel.pc = "probe"
    /\ rel' = [rel EXCEPT !.pc = IF is_repo THEN "hash" ELSE "returned",
                          !.probe = IF is_repo THEN "tracked" ELSE "untracked",
                          !.calls = Called("is_git_repository"),
                          !.raised = Outcome(FALSE)]
    /\ RelUnchanged

\* variant: a GitError of the commit hash query is handled like one of the tag query
RelHash_falls_back(out) ==
    /\ rel.pc = "hash"
    /\ rel' = IF out = "GitError"
              THEN [rel EXCEPT !.pc = "fallback",
                               !.calls = Called("get_current_commit_hash"),
                               !.raised = Outcome(TRUE)]
              ELSE [rel EXCEPT !.pc = "tags", !.commit_hash = out,
                               !.calls = Called("get_current_commit_hash"),
                               !.raised = Outcome(FALSE)]
    /\ RelUnchanged

\* lines 1364-1366 and 1399-1403
RelHash(out) ==
    /\ rel.pc = "hash"
    /\ rel' = IF out = "GitError"
              THEN [rel EXCEPT !.pc = "returned", !.commit_hash = "unknown",
                               !.commits = <<>>,
                               !.calls = Called("get_current_commit_hash"),
                               !.raised = Outcome(TRUE)]
              ELSE [rel EXCEPT !.pc = "tags", !.commit_hash = out,
                               !.calls = Called("get_current_commit_hash"),
                               !.raised = Outcome(FALSE)]
    /\ RelUnchanged

\* variant: the highest tag, whether or not it is the current version
PreviousTag_highest(tags, version) ==
    IF tags = <<>> THEN NoneValue ELSE tags[1]

\* the first tag that is not the current version, None when there is none
PreviousTag(tags, version) ==
    LET others == {i \in 1..Len(tags) : tags[i] # version}
    IN  IF others = {} THEN NoneValue
        ELSE tags[CHOOSE i \in others : \A j \in others : i <= j]

\* lines 1369-1386: the tags and the choice of the log query
RelTags(out) ==
    /\ rel.pc = "tags"
    /\ rel' = IF out = GitErr
              THEN [rel EXCEPT !.pc = "fallback", !.calls = Called("get_git_tags"),
                               !.raised = Outcome(TRUE)]
              ELSE LET tags == get_git_tags(out.value)
                       previous == PreviousTag(tags, rel.version)
                   IN  [rel EXCEPT !.pc = IF previous # NoneValue THEN "since" ELSE "all",
                                   !.previous_version = previous,
                                   !.tags = tags,
                                   !.calls = Called("get_git_tags"),
                                   !.raised = Outcome(FALSE)]
    /\ RelUnchanged

\* line 1380
RelCommitsSince(out) ==
    /\ rel.pc = "since"
    /\ rel' = IF out = GitErr
              THEN [rel EXCEPT !.pc = "fallback", !.since_tag = rel.previous_version,
                               !.calls = Called("get_commits_since_tag"),
                               !.raised = Outcome(TRUE)]
              ELSE [rel EXCEPT !.pc = "returned", !.commits = out.value,
                               !.since_tag = rel.previous_version,
                               !.log = out.value,
                               !.calls = Called("get_commits_since_tag"),
                               !.raised = Outcome(FALSE)]
    /\ RelUnchanged

\* variant: a GitError of the log query leaves generate_release_info
RelAllCommits_propagates(out) ==
    /\ rel.pc = "all"
    /\ rel' = IF out = GitErr
              THEN [rel EXCEPT !.pc = "raised",
                               !.calls = Called("get_all_commits_since_beginning"),
                               !.raised = Outcome(TRUE)]
              ELSE [rel EXCEPT !.pc = "returned", !.commits = out.value,
                               !.log = out.value,
                               !.calls = Called("get_all_commits_since_beginning"),
                               !.raised = Outcome(FALSE)]
    /\ RelUnchanged

\* lines 1383 and 1386
RelAllCommits(out) ==
    /\ rel.pc = "all"
    /\ rel' = IF out = GitErr
              THEN [rel EXCEPT !.pc = "fallback",
                               !.calls = Called("get_all_commits_since_beginning"),
                               !.raised = Outcome(TRUE)]
              ELSE [rel EXCEPT !.pc = "returned", !.commits = out.value,
                               !.log = out.value,
                               !.calls = Called("get_all_commits_since_beginning"),
                               !.raised = Outcome(FALSE)]
    /\ RelUnchanged

\* variant: the handler gives up without asking for all commits' result
RelFallback_empty(out) ==
    /\ rel.pc = "fallback"
    /\ rel' = [rel EXCEPT !.pc = "returned",
                          !.commits = <<>>,
                          !.log = IF out = GitErr THEN rel.log ELSE out.value,
                          !.calls = Called("get_all_commits_since_beginning"),
                          !.raised = Outcome(out = GitErr)]
    /\ RelUnchanged

\* lines 1388-1397: the handler of a GitError of the tag or log queries
RelFallback(out) ==
    /\ rel.pc = "fallback"
    /\ rel' = [rel EXCEPT !.pc = "returned",
                          !.commits = IF out = GitErr THEN <<>> ELSE out.value,
                          !.log = IF out = GitErr THEN rel.log ELSE out.value,
                          !.calls = Called("get_all_commits_since_beginning"),
                          !.raised = Outcome(out = GitErr)]
    /\ RelUnchanged

NextRelease ==
    \/ \E unreadable \in [AllPaths -> BOOLEAN] : RelVersion(unreadable)
    \/ \E is_repo \in BOOLEAN : RelProbe(is_repo)
    \/ \E out \in HashOutcomes : RelHash(out)
    \/ \E out \in TagOutcomes : RelTags(out)
    \/ \E out \in LogOutcomes : RelCommitsSince(out)
    \/ \E out \in LogOutcomes : RelAllCommits(out)
    \/ \E out \in LogOutcomes : RelFallback(out)

SpecRelease == InitRelease /\ [][NextRelease]_vars

\* ------------------------------------------------------------------
\* Properties of generate_release_info (under SpecRelease)
\* ------------------------------------------------------------------
\* C10: once the probe has answered "not tracked", generate_release_info has
\* returned a record with commit hash "unknown", no previous version and no
\* commits, and the probe is the only GitManager operation it called.
C10_NotTrackedDefaults ==
    rel.probe = "untracked" =>
        /\ rel.pc = "returned"
        /\ rel.commit_hash = "unknown"
        /\ rel.previous_version = NoneValue
        /\ rel.commits = <<>>
        /\ rel.calls = <<"is_git_repository">>

C10_Witness ==
    /\ rel.pc = "returned"
    /\ rel.probe = "untracked"
    /\ rel.version = V123
    /\ rel.commit_hash = "unknown"

\* the n-th GitManager call of generate_release_info was made and raised / returned
CallRaised(n) == Len(rel.raised) >= n /\ rel.raised[n]
CallReturned(n) == Len(rel.raised) >= n /\ ~rel.raised[n]

\* C11: when the directory is tracked and get_current_commit_hash raises
\* GitError, generate_release_info returns at once with commit hash
\* "unknown", no commits and no previous version, having made neither the
\* tag query nor any log query.
C11_RevisionFailureDefaults ==
    CallRaised(2) =>
        /\ rel.pc = "returned"
        /\ rel.probe = "tracked"
        /\ rel.commit_hash = "unknown"
        /\ rel.commits = <<>>
        /\ rel.previous_version = NoneValue
        /\ rel.calls = <<"is_git_repository", "get_current_commit_hash">>

C11_Witness ==
    /\ rel.pc = "returned"
    /\ rel.probe = "tracked"
    /\ rel.calls = <<"is_git_repository", "get_current_commit_hash">>
    /\ rel.raised = <<FALSE, TRUE>>
    /\ rel.commit_hash = "unknown"

\* C12: when get_current_commit_hash returned and get_git_tags raises
\* GitError, the previous version stays None, the commit hash obtained is
\* kept, the one further call is get_all_commits_since_beginning, and the
\* commits returned are its result, or empty when it raises too.
C12_TagFailureFallsBack ==
    CallRaised(3) =>
        /\ rel.pc \in {"fallback", "returned"}
        /\ rel.previous_version = NoneValue
        /\ rel.commit_hash \in HashOutcomes \ {"GitError"}
        /\ rel.pc = "returned" =>
              /\ rel.calls = <<"is_git_repository", "get_current_commit_hash",
                               "get_git_tags", "get_all_commits_since_beginning">>
              /\ rel.commits = IF rel.raised[4] THEN <<>> ELSE rel.log

C12_Witness ==
    /\ rel.pc = "returned"
    /\ rel.raised = <<FALSE, FALSE, TRUE, FALSE>>
    /\ rel.commits = <<"c2", "c1">>
    /\ rel.previous_version = NoneValue

\* C13: when get_git_tags returned, the previous version is the first of the
\* returned tags that differs textually from the current version and the log
\* query made is get_commits_since_tag on it; when there is no such tag the
\* previous version is None and the log query is
\* get_all_commits_since_beginning; when that log query returns, its result
\* is the commits of the record.
C13_PreviousVersionAndCommits ==
    CallReturned(3) =>
        LET others == {i \in 1..Len(rel.tags) : rel.tags[i] # rel.version}
            first == CHOOSE i \in others : \A j \in others : i <= j
        IN  /\ rel.previous_version = IF others = {} THEN NoneValue ELSE rel.tags[first]
            /\ Len(rel.calls) >= 4 =>
                  /\ rel.calls[4] = IF others = {} THEN "get_all_commits_since_beginning"
                                    ELSE "get_commits_since_tag"
                  /\ others # {} => rel.since_tag = rel.tags[first]
            /\ CallReturned(4) =>
                  /\ rel.pc = "returned"
                  /\ Len(rel.calls) = 4
                  /\ rel.commits = rel.log

C13_Witness ==
    /\ rel.pc = "returned"
    /\ rel.version = V123
    /\ rel.tags = <<V123, V122>>
    /\ rel.previous_version = V122
    /\ rel.calls[4] = "get_commits_since_tag"
    /\ rel.raised = <<FALSE, FALSE, FALSE, FALSE>>
    /\ rel.commits = <<"c2">>

\* C14 as stated: when get_git_tags returned and the log query that follows
\* it raises GitError, the record returned has no commits.
C14_AsClaimed ==
    (rel.pc = "returned" /\ CallReturned(3) /\ CallRaised(4)) => rel.commits = <<>>

\* C15: once the current version is resolved, generate_release_info never
\* raises, whatever each GitManager operation does: it is either still
\* running or has returned a record; it raises only out of the version
\* resolution, before any GitManager operation is called.
C15_OnlyVersionResolutionRaises ==
    /\ rel.version # <<>> => rel.pc \in {"probe", "hash", "tags", "since", "all",
                                          "fallback", "returned"}
    /\ rel.pc = "raised" => rel.version = <<>> /\ rel.calls = <<>>
    /\ rel.pc = "returned" => rel.version # <<>>

C15_Witness ==
    /\ rel.pc = "returned"
    /\ rel.version = V123
    /\ rel.raised = <<FALSE, FALSE, FALSE, TRUE, TRUE>>
    /\ rel.commit_hash = "abc1234"

\* ------------------------------------------------------------------
\* GitManager over subprocess.run (SpecGit)
\* ------------------------------------------------------------------
\* what subprocess.run can do: the command exits with a return code and
\* its output, or run raises one of the exceptions the methods catch
RunExceptions == {"TimeoutExpired", "FileNotFoundError", "OSError"}
Exited(returncode, stdout) == [kind |-> "exit", returncode |-> returncode, stdout |-> stdout]
RunRaised(exception) == [kind |-> exception, returncode |-> -1, stdout |-> <<>>]
RunOutcomes(stdouts) ==
    {Exited(0, o) : o \in stdouts} \cup {Exited(128, <<>>)}
        \cup {RunRaised(e) : e \in RunExceptions}
Succeeded(out) == out.kind = "exit" /\ out.returncode = 0

\* the external commands
CmdProbe == "git rev-parse --git-dir"
CmdTagList == "git tag -l"
CmdVerify == "git rev-parse --verify"
CmdLog == "git log"
CmdHead == "git rev-parse --short HEAD"

\* variant: an exception of the probe counts as a repository
is_git_repository_unless_exit(out) == out.kind # "exit" \/ out.returncode = 0

\* lines 499-515: True only for return code 0; the three exceptions give False
is_git_repository(out) == out.kind = "exit" /\ out.returncode = 0

\* the shape every other method has: the probe, then its commands in order;
\* a return code other than 0 or an exception of run ends it with GitError
GitOperation(cmds, outs) ==
    IF ~is_git_repository(outs[1])
    THEN [commands |-> <<CmdProbe>>, raised |-> TRUE, value |-> <<>>, stdout |-> <<>>]
    ELSE LET bad == {i \in 1..Len(cmds) : ~Succeeded(outs[i + 1])}
             n == IF bad = {} THEN Len(cmds)
                  ELSE CHOOSE i \in bad : \A j \in bad : i <= j
             last == outs[Len(cmds) + 1].stdout
         IN  [commands |-> <<CmdProbe>> \o SubSeq(cmds, 1, n),
              raised |-> bad # {},
              value |-> <<>>,
              stdout |-> IF bad = {} THEN last ELSE <<>>]

\* the value a method returns when none of its commands failed
Returning(r, value) == IF r.raised THEN r ELSE [r EXCEPT !.value = value]

\* lines of `git log --pretty=format:%H|%s|%an|%ad`: a line gives a commit
\* when it is not blank and splits in four parts
LogLines == {"c1", "c2", "", "not four parts"}
LogTexts == SeqsUpTo(LogLines, MaxTags)
ParseLog(lines) == SelectSeq(lines, LAMBDA l : l \notin {"", "not four parts"})

\* output of `git rev-parse --short HEAD`, before strip()
HeadTexts == {<<"a", "b", "c">>, <<"a", "b", "c", " ">>}

ProbeOutcomes == RunOutcomes({<<>>})
TagArgs == {V123, V122}

InitGit ==
    /\ files = EmptyMap
    /\ pre_files = files
    /\ WfLocals("off")
    /\ fm_call = NoCall
    /\ rel = NoRel
    /\ vm_call = NoCall
    /\ git = NoCall
    /\ TopIdle

GitCall(operation, args, outs, r) ==
    /\ git' = [op |-> operation, args |-> args, probe |-> outs[1], outs |-> outs,
               commands |-> r.commands, raised |-> r.raised,
               value |-> r.value, stdout |-> r.stdout]
    /\ UNCHANGED <<files, pre_files, wfVars, fm_call, rel, vm_call, topVars>>

\* get_git_tags as a whole (lines 527-572)
RunGetGitTags(outs) ==
    LET r == GitOperation(<<CmdTagList>>, outs)
    IN  Returning(r, get_git_tags(r.stdout))

\* a method that ends with `git log` and gives the commits it printed
RunLog(cmds, outs) ==
    LET r == GitOperation(cmds, outs)
    IN  Returning(r, ParseLog(r.stdout))

\* one call is observed per behaviour
Idle == git = NoCall

CallIsGitRepository ==
    /\ Idle
    /\ \E out \in ProbeOutcomes :
          GitCall("is_git_repository", <<>>, <<out>>,
                  [commands |-> <<CmdProbe>>, raised |-> FALSE,
                   value |-> <<is_git_repository(out)>>, stdout |-> <<>>])

\* lines 517-572
CallGetGitTags ==
    /\ Idle
    /\ \E o1 \in ProbeOutcomes, o2 \in RunOutcomes(RawTagLists) :
          GitCall("get_git_tags", <<>>, <<o1, o2>>, RunGetGitTags(<<o1, o2>>))

\* lines 574-631
CallGetCommitsBetweenTags ==
    /\ Idle
    /\ \E tag1, tag2 \in TagArgs, o1, o2, o3 \in ProbeOutcomes, o4 \in RunOutcomes(LogTexts) :
          GitCall("get_commits_between_tags", <<tag1, tag2>>, <<o1, o2, o3, o4>>,
                  RunLog(<<CmdVerify, CmdVerify, CmdLog>>, <<o1, o2, o3, o4>>))

\* lines 633-688
CallGetCommitsSinceTag ==
    /\ Idle
    /\ \E tag \in TagArgs, o1, o2 \in ProbeOutcomes, o3 \in RunOutcomes(LogTexts) :
          GitCall("get_commits_since_tag", <<tag>>, <<o1, o2, o3>>,
                  RunLog(<<CmdVerify, CmdLog>>, <<o1, o2, o3>>))

\* lines 690-704: get_git_tags, then GitError when it gave no tag
CallGetLatestTag ==
    /\ Idle
    /\ \E o1 \in ProbeOutcomes, o2 \in RunOutcomes(RawTagLists) :
          LET r == RunGetGitTags(<<o1, o2>>)
          IN  GitCall("get_latest_tag", <<>>, <<o1, o2>>,
                      IF r.raised THEN r
                      ELSE IF r.value = <<>> THEN [r EXCEPT !.raised = TRUE]
                      ELSE [r EXCEPT !.value = r.value[1]])

\* lines 706-735
CallGetCurrentCommitHash ==
    /\ Idle
    /\ \E o1 \in ProbeOutcomes, o2 \in RunOutcomes(HeadTexts) :
          LET r == GitOperation(<<CmdHead>>, <<o1, o2>>)
          IN  GitCall("get_current_commit_hash", <<>>, <<o1, o2>>,
                      Returning(r, Strip(r.stdout)))

\* lines 737-777
CallGetAllCommitsSinceBeginning ==
    /\ Idle
    /\ \E o1 \in ProbeOutcomes, o2 \in RunOutcomes(LogTexts) :
          GitCall("get_all_commits_since_beginning", <<>>, <<o1, o2>>,
                  RunLog(<<CmdLog>>, <<o1, o2>>))

NextGit ==
    \/ CallIsGitRepository
    \/ CallGetGitTags
    \/ CallGetCommitsBetweenTags
    \/ CallGetCommitsSinceTag
    \/ CallGetLatestTag
    \/ CallGetCurrentCommitHash
    \/ CallGetAllCommitsSinceBeginning

SpecGit == InitGit /\ [][NextGit]_vars

\* ------------------------------------------------------------------
\* Properties of the GitManager (under SpecGit)
\* ------------------------------------------------------------------
GitOperations ==
    {"get_git_tags", "get_commits_between_tags", "get_commits_since_tag",
     "get_latest_tag", "get_current_commit_hash", "get_all_commits_since_beginning"}

\* C16: every GitManager operation runs the probe as its first external
\* command, and when the probe does not exit with 0 (wrong return code,
\* timeout, missing executable, OS error) the operation raises GitError
\* having run no other command.
C16_ProbeFirstFailFast ==
    git.op \in GitOperations =>
        /\ git.commands[1] = CmdProbe
        /\ ~(git.probe.kind = "exit" /\ git.probe.returncode = 0) =>
              /\ git.raised
              /\ git.commands = <<CmdProbe>>

C16_Witness ==
    /\ git.op = "get_commits_between_tags"
    /\ git.probe.kind = "TimeoutExpired"
    /\ git.raised
    /\ git.commands = <<CmdProbe>>

\* the permutations of 1..n
Orderings(n) == {f \in [1..n -> 1..n] : \A i, j \in 1..n : i # j => f[i] # f[j]}

\* C17: when `git tag -l` succeeds, get_git_tags returns exactly the printed
\* tags that parse as versions, in non-increasing order of (major, minor,
\* patch), tags of equal value in the order they were printed; it returns the
\* empty list, and does not raise, when no tag or no parseable tag was printed.
C17_TagsFilteredSortedStable ==
    (git.op = "get_git_tags" /\ Succeeded(git.outs[1]) /\ Succeeded(git.outs[2])) =>
        LET printed == SelectSeq(git.outs[2].stdout, LAMBDA t : t # <<>>)
            parsing == SelectSeq(printed, LAMBDA t : parse_version(t) # VersionErr)
            n == Len(parsing)
        IN  /\ ~git.raised
            /\ Len(git.value) = n
            /\ \E f \in Orderings(n) :
                  /\ \A i \in 1..n : git.value[i] = parsing[f[i]]
                  /\ \A i, j \in 1..n : i < j =>
                        LET a == parse_version(git.value[i])
                            b == parse_version(git.value[j])
                        IN  /\ ~(a[1] < b[1])
                            /\ a[1] = b[1] => ~(a[2] < b[2])
                            /\ (a[1] = b[1] /\ a[2] = b[2]) => ~(a[3] < b[3])
                            /\ a = b => f[i] < f[j]
            /\ parsing = <<>> => git.value = <<>>

C17_Witness ==
    /\ git.op = "get_git_tags"
    /\ ~git.raised
    /\ git.outs[2].stdout = <<V122, N123>>
    /\ git.value = <<N123, V122>>

\* ------------------------------------------------------------------
\* VersionManager and Version on their own (SpecVM)
\* ------------------------------------------------------------------
\* Version(major, minor, patch, prefix) as find_highest_version builds it from
\* a string (lines 202-205)
VersionOf(version) ==
    LET p == parse_version(version)
    IN  [major |-> p[1], minor |-> p[2], patch |-> p[3], prefix |-> PrefixOf(version)]

\* Version.__str__ (lines 54-56)
Version_str(v) == RenderTriple(v.prefix, v.major, v.minor, v.patch)

V129 == <<"v", "1", ".", "2", ".", "9">>
V195 == <<"v", "1", ".", "9", ".", "5">>
V952 == <<"v", "9", ".", "5", ".", "2">>
V0123 == <<"v", "0", "1", ".", "2", ".", "3">>
Padded123 == <<" ", "v", "1", ".", "2", ".", "3">>

\* the strings given to the VersionManager: with and without prefix, equal
\* values written differently, components about to gain a digit, invalid ones
VmStrings == {V123, N123, V122, V129, V195, V952, V0123, Padded123, NotATag, <<>>}
VmLists == SeqsUpTo(VmStrings, MaxVersions)

InitVM ==
    /\ files = EmptyMap
    /\ pre_files = files
    /\ WfLocals("off")
    /\ fm_call = NoCall
    /\ rel = NoRel
    /\ vm_call = NoCall
    /\ git = NoCall
    /\ TopIdle

VmUnchanged == UNCHANGED <<files, pre_files, wfVars, fm_call, rel, git, topVars>>

CallParseVersion ==
    /\ vm_call = NoCall
    /\ \E version \in VmStrings :
          vm_call' = [op |-> "parse_version", version |-> version,
                      result |-> parse_version(version)]
    /\ VmUnchanged

CallFindHighestVersion ==
    /\ vm_call = NoCall
    /\ \E versions \in VmLists :
          vm_call' = [op |-> "find_highest_version", versions |-> versions,
                      result |-> find_highest_version(versions)]
    /\ VmUnchanged

CallIncrementPatch ==
    /\ vm_call = NoCall
    /\ \E version \in VmStrings :
          vm_call' = [op |-> "increment_patch", version |-> version,
                      result |-> increment_patch(version)]
    /\ VmUnchanged

CallIncrementMinor ==
    /\ vm_call = NoCall
    /\ \E version \in VmStrings :
          vm_call' = [op |-> "increment_minor", version |-> version,
                      result |-> increment_minor(version)]
    /\ VmUnchanged

CallIncrementMajor ==
    /\ vm_call = NoCall
    /\ \E version \in VmStrings :
          vm_call' = [op |-> "increment_major", version |-> version,
                      result |-> increment_major(version)]
    /\ VmUnchanged

\* str(Version(major, minor, patch, prefix)) of a string that parses
CallVersionStr ==
    /\ vm_call = NoCall
    /\ \E version \in VmStrings :
          /\ parse_version(version) # VersionErr
          /\ vm_call' = [op |-> "Version.__str__", version |-> version,
                         result |-> Version_str(VersionOf(version))]
    /\ VmUnchanged

NextVM ==
    \/ CallParseVersion
    \/ CallFindHighestVersion
    \/ CallIncrementPatch
    \/ CallIncrementMinor
    \/ CallIncrementMajor
    \/ CallVersionStr

SpecVM == InitVM /\ [][NextVM]_vars

\* ------------------------------------------------------------------
\* Properties of the VersionManager (under SpecVM)
\* ------------------------------------------------------------------
\* (major, minor, patch) a is numerically below b
TripleBelow(a, b) ==
    \/ a[1] < b[1]
    \/ a[1] = b[1] /\ a[2] < b[2]
    \/ a[1] = b[1] /\ a[2] = b[2] /\ a[3] < b[3]

\* the string is an optional 'v' and three dot-separated runs of digits
MatchesPattern(s) == VersionPatternGroups(s) # VersionErr

\* C18: find_highest_version raises VersionError exactly when the list is
\* empty or none of its elements parses; otherwise it skips the elements
\* that do not parse and returns, as given, the first element whose (major,
\* minor, patch) no other element exceeds.
C18_HighestSkipsInvalidFirstOfTies ==
    vm_call.op = "find_highest_version" =>
        LET versions == vm_call.versions
            valid == {i \in 1..Len(versions) : parse_version(versions[i]) # VersionErr}
            top == {i \in valid : \A j \in valid :
                       ~TripleBelow(parse_version(versions[i]), parse_version(versions[j]))}
        IN  /\ (vm_call.result = VersionErr) <=> (versions = <<>> \/ valid = {})
            /\ valid # {} =>
                  \E k \in top : /\ \A j \in top : k <= j
                                 /\ vm_call.result = versions[k]

C18_Witness ==
    /\ vm_call.op = "find_highest_version"
    /\ vm_call.versions = <<N123, V123>>
    /\ vm_call.result = N123

\* the decimal text has no superfluous leading zero
Canonical(digits) == digits = <<"0">> \/ Head(digits) # "0"

\* the text is exactly [v]major.minor.patch for the triple, in canonical decimal
Renders(text, prefixed, triple) ==
    /\ MatchesPattern(text)
    /\ parse_version(text) = triple
    /\ (Head(text) = "v") <=> prefixed
    /\ \A g \in 1..3 : Canonical(VersionPatternGroups(text)[g])

\* C19: for a string that parses, increment_patch adds 1 to the patch only,
\* increment_minor adds 1 to the minor and gives patch 0, increment_major
\* adds 1 to the major and gives minor and patch 0; the arithmetic is on
\* numbers (9 gives 10) and the result starts with 'v' exactly when the
\* string, once stripped, does.
C19_IncrementsPerComponent ==
    (vm_call.op \in {"increment_patch", "increment_minor", "increment_major"}
        /\ parse_version(vm_call.version) # VersionErr) =>
        LET p == parse_version(vm_call.version)
            prefixed == Head(Strip(vm_call.version)) = "v"
            expected == CASE vm_call.op = "increment_patch" -> <<p[1], p[2], p[3] + 1>>
                          [] vm_call.op = "increment_minor" -> <<p[1], p[2] + 1, 0>>
                          [] vm_call.op = "increment_major" -> <<p[1] + 1, 0, 0>>
        IN  /\ vm_call.result # VersionErr
            /\ Renders(vm_call.result, prefixed, expected)
            /\ (vm_call.op = "increment_patch" /\ vm_call.version = V129) =>
                  vm_call.result = <<"v", "1", ".", "2", ".", "1", "0">>
            /\ (vm_call.op = "increment_minor" /\ vm_call.version = V195) =>
                  vm_call.result = <<"v", "1", ".", "1", "0", ".", "0">>
            /\ (vm_call.op = "increment_major" /\ vm_call.version = V952) =>
                  vm_call.result = <<"v", "1", "0", ".", "0", ".", "0">>

C19_Witness ==
    /\ vm_call.op = "increment_minor"
    /\ vm_call.version = V195
    /\ vm_call.result = <<"v", "1", ".", "1", "0", ".", "0">>

\* C20 as stated: for every string the version pattern accepts, the Version
\* built from it renders as that same string.
C20_AsClaimed ==
    (vm_call.op = "Version.__str__" /\ MatchesPattern(vm_call.version)) =>
        vm_call.result = vm_call.version

\* ------------------------------------------------------------------
\* Further properties of the increment workflow (under Spec)
\* ------------------------------------------------------------------
\* the answer at a prompt, trimmed and lower-cased, is "y" or "yes"
SaidYes(ev) == ev.kind = "text" /\ Normalise(ev.text) \in {<<"y">>, <<"y", "e", "s">>}

\* C27: a snapshot is written back only after the user said yes at the
\* rollback prompt; until then a file the update loop opened for write never
\* has its original content again; and the rollback the workflow calls by
\* itself when no file was updated attempts and opens no file.
C27_RollbackOptIn ==
    /\ (rb_opened # {} \/ rb_attempted # {}) =>
          (rollback_mode = "user" /\ SaidYes(rollback_in))
    /\ rollback_mode = "user" => SaidYes(rollback_in)
    /\ rollback_mode # "user" => \A q \in w_opened : files[q] # pre_files[q]
    /\ rollback_mode = "auto" =>
          /\ Updated = {}
          /\ rb_opened = {} /\ rb_attempted = {}

C27_Witness ==
    /\ pc = "done"
    /\ rollback_mode = "auto"
    /\ original_contents # EmptyMap
    /\ w_opened # {}
    /\ rb_opened = {}
    /\ exit_code = 1

\* C29: in a run that got past the confirmation, the new version is
\* numerically above every version the scan found, and a file the update
\* changed carries no version below the one the scan found in it.
C29_NewVersionAboveAllFound ==
    pc \in {"backup", "update", "rollback"} \/ update_results # EmptyMap =>
        /\ versions_found # EmptyMap
        /\ \A q \in DOMAIN versions_found :
              /\ parse_version(versions_found[q]) # VersionErr
              /\ TripleBelow(parse_version(versions_found[q]), parse_version(new_version))
        /\ rollback_mode = "none" =>
              \A q \in Updated \cap DOMAIN versions_found :
                 \A i \in 1..Len(files[q]) :
                    (files[q][i].tpl = TplFor(q) /\ parse_version(files[q][i].ver) # VersionErr) =>
                        TripleBelow(parse_version(versions_found[q]),
                                    parse_version(files[q][i].ver))

C29_Witness ==
    /\ pc = "done"
    /\ exit_code = 0
    /\ increment_type = "patch"
    /\ {versions_found[q] : q \in DOMAIN versions_found} = {V123, V122}
    /\ new_version = <<"v", "1", ".", "2", ".", "4">>
    /\ Cardinality(Updated) = 3

\* C30: the workflow returns 0 exactly when the user declined the
\* confirmation, or at least one file was updated and no update raised; in
\* every other outcome it returns 1.
C30_ExitCode ==
    pc = "done" =>
        /\ exit_code \in {0, 1}
        /\ exit_code = 0 <=>
              \/ Declines(confirm_in)
              \/ Updated # {} /\ failed_files = {}

C30_Witness ==
    /\ pc = "done"
    /\ exit_code = 1
    /\ Updated # {}
    /\ failed_files # {}
    /\ rollback_mode = "none"
    /\ rollback_in.kind = "text"

\* ==================================================================
\* A FileManager built from a configuration list (SpecRegistry)
\* ==================================================================
MaxRules == 2

P_A == <<"a">>
L_REC == <<"*", "*", "/", "a">>
RegPaths == {P_R, P_SA, P_A}

RequiredKeys == <<"file", "pattern", "template">>

\* a dictionary of the configuration list: the keys it has, its locator, the
\* text of its regex and template (tpl), and what validation looks at
Entry(file, tpl) ==
    [keys |-> {"file", "pattern", "template"}, file |-> file, tpl |-> tpl,
     pattern_compiled |-> TRUE, template_is_str |-> TRUE,
     has_placeholder |-> TRUE, groups |-> 1]

ValidEntries == {Entry(P_R, 1), Entry(L_S, 2), Entry(L_S, 3), Entry(L_REC, 2)}

DefectEntries ==
    {[Entry(P_R, 1) EXCEPT !.keys = @ \ {k}] : k \in {"file", "pattern", "template"}}
      \cup {[Entry(P_R, 1) EXCEPT !.pattern_compiled = FALSE],
            [Entry(P_R, 1) EXCEPT !.template_is_str = FALSE],
            [Entry(P_R, 1) EXCEPT !.has_placeholder = FALSE],
            [Entry(P_R, 1) EXCEPT !.groups = 0]}

RawEntries == ValidEntries \cup DefectEntries

RawConfigs == SeqsUpTo(RawEntries, MaxRules)

\* variant: the number of capture groups is not looked at
_validate_config_any_groups(config) ==
    IF \E i \in 1..Len(RequiredKeys) : RequiredKeys[i] \notin config.keys
    THEN "Missing required configuration key"
    ELSE IF ~config.pattern_compiled THEN "Pattern must be a compiled regex object"
    ELSE IF ~config.template_is_str THEN "Template must be a string"
    ELSE IF ~config.has_placeholder THEN "Template must contain {version} placeholder"
    ELSE "ok"

\* FileManager._validate_config: the message of the FileError it raises, "ok"
\* when it returns
_validate_config(config) ==
    IF \E i \in 1..Len(RequiredKeys) : RequiredKeys[i] \notin config.keys
    THEN "Missing required configuration key"
    ELSE IF ~config.pattern_compiled THEN "Pattern must be a compiled regex object"
    ELSE IF ~config.template_is_str THEN "Template must be a string"
    ELSE IF ~config.has_placeholder THEN "Template must contain {version} placeholder"
    ELSE IF config.groups < 1
         THEN "Regex pattern must have at least one capture group"
    ELSE "ok"

FileConfig(config) ==
    [file_pattern |-> config.file, tpl |-> config.tpl, unknown_placeholder |-> FALSE]

\* FileManager.__init__: whether it raised FileError, with which message, and
\* the object as the constructor left it
FileManager_init(version_files_config) ==
    LET n == Len(version_files_config)
        bad == {i \in 1..n : _validate_config(version_files_config[i]) # "ok"}
        built(k) == [i \in 1..k |-> FileConfig(version_files_config[i])]
    IN  IF version_files_config = <<>>
        THEN [raised |-> TRUE, message |-> "VERSION_FILES configuration cannot be empty",
              self |-> NoObject]
        ELSE IF bad # {}
        THEN LET k == CHOOSE i \in bad : \A j \in bad : i <= j
             IN  [raised |-> TRUE, message |-> _validate_config(version_files_config[k]),
                  self |-> [constructed |-> FALSE, file_configs |-> built(k - 1)]]
        ELSE [raised |-> FALSE, message |-> "ok",
              self |-> [constructed |-> TRUE, file_configs |-> built(n)]]

RegTokens == {Other, Marker(2, V123), Marker(2, V122), Marker(3, V122)}

RegContents(path) ==
    IF path = P_SA THEN SeqsUpTo(RegTokens, MaxContentLen)
    ELSE IF path = P_R THEN {<<Marker(1, V123)>>}
    ELSE {<<Marker(2, V123)>>}

RegDisks ==
    UNION {{d \in [D -> UNION {RegContents(q) : q \in D}] :
               \A q \in D : d[q] \in RegContents(q)} : D \in SUBSET RegPaths}

InitRegistry ==
    /\ files \in RegDisks
    /\ pre_files = files
    /\ WfLocals("off")
    /\ fm_call = NoCall
    /\ rel = NoRel
    /\ LibIdle

RegUnchanged == UNCHANGED <<pre_files, wfVars, rel, vm_call, git, main>>

\* fm = FileManager(version_files_config): fm is bound when __init__ returns
Construct ==
    /\ fm_call = NoCall
    /\ \E version_files_config \in RawConfigs :
          LET r == FileManager_init(version_files_config)
          IN  /\ file_manager' = IF r.raised THEN file_manager ELSE r.self
              /\ fm_call' = [op |-> "FileManager", config |-> version_files_config,
                             raised |-> r.raised, message |-> r.message,
                             file_ops |-> {}]
    /\ UNCHANGED files
    /\ RegUnchanged

\* a method is called on the object fm, once
Constructed == file_manager.constructed /\ fm_call.op = "FileManager"

CallExpandFilePatterns ==
    /\ Constructed
    /\ fm_call' = [op |-> "expand_file_patterns", config |-> fm_call.config,
                   result |-> FileManager_expand_file_patterns(file_manager, files)]
    /\ UNCHANGED <<files, file_manager>>
    /\ RegUnchanged

CallFindVersionsInFiles ==
    /\ Constructed
    /\ \E unreadable \in [RegPaths -> BOOLEAN] :
          LET r == FileManager_find_versions_in_files(file_manager, files, unreadable)
          IN  fm_call' = [op |-> "find_versions_in_files", config |-> fm_call.config,
                          unreadable |-> unreadable, status |-> r.status,
                          versions_found |-> r.versions_found, reads |-> r.reads]
    /\ UNCHANGED <<files, file_manager>>
    /\ RegUnchanged

CallUpdateFileVersionOn ==
    /\ Constructed
    /\ \E file_path \in RegPaths \cup {P_X}, to_version \in NewVersions :
          LET io == IOok
              r == FileManager_update_file_version(file_manager, files, file_path,
                                                   to_version, io)
          IN  /\ files' = r.disk
              /\ fm_call' = [op |-> "update_file_version", config |-> fm_call.config,
                             file_path |-> file_path, new_version |-> to_version,
                             io |-> io, status |-> r.status, opened_w |-> r.opened_w]
    /\ UNCHANGED file_manager
    /\ RegUnchanged

NextRegistry ==
    \/ Construct
    \/ CallExpandFilePatterns
    \/ CallFindVersionsInFiles
    \/ CallUpdateFileVersionOn

SpecRegistry == InitRegistry /\ [][NextRegistry]_vars

\* ------------------------------------------------------------------
\* Properties of FileManager objects (under SpecRegistry)
\* ------------------------------------------------------------------
\* the defects of a configuration dictionary the constructor must refuse
Defective(config) ==
    \/ config.keys # {"file", "pattern", "template"}
    \/ ~config.has_placeholder
    \/ config.groups < 1

\* C21: FileManager(config) raises its configuration error (a FileError) when
\* the list is empty or some dictionary lacks a key, has a template without
\* {version} or a regex without a capture group; it has then touched no file,
\* no object is bound, and no method ever runs on an object that was not
\* fully built; an object that is built holds every rule of the list.
C21_ConstructionRejects ==
    /\ fm_call.op = "FileManager" =>
          /\ files = pre_files /\ fm_call.file_ops = {}
          /\ (\/ fm_call.config = <<>>
              \/ \E i \in 1..Len(fm_call.config) : Defective(fm_call.config[i])) =>
                 /\ fm_call.raised /\ fm_call.message # "ok"
                 /\ file_manager = NoObject
    /\ ~file_manager.constructed => fm_call.op \in {"none", "FileManager"}
    /\ file_manager.constructed =>
          /\ Len(file_manager.file_configs) = Len(fm_call.config)
          /\ \A i \in 1..Len(fm_call.config) : ~Defective(fm_call.config[i])

C21_Witness ==
    /\ fm_call.op = "FileManager" /\ fm_call.raised
    /\ Len(fm_call.config) = 2
    /\ fm_call.config[1] = Entry(L_S, 2)
    /\ fm_call.config[2].groups = 0
    /\ file_manager = NoObject
    /\ files # EmptyMap

\* the rule of the object for a path: the first, in list order, whose locator
\* matches it (0 when there is none)
Locates(k, q) ==
    LET locator == file_manager.file_configs[k].file_pattern
    IN  IF HasWildcard(locator) THEN Fnmatch(q, locator) ELSE q = locator

RuleFor(q) ==
    LET n == Len(file_manager.file_configs)
    IN  IF \A k \in 1..n : ~Locates(k, q) THEN 0
        ELSE CHOOSE k \in 1..n : Locates(k, q) /\ \A j \in 1..(k - 1) : ~Locates(j, q)

\* the tokens of a file's content the regex of rule k matches
RuleMatches(k, q) ==
    {i \in 1..Len(pre_files[q]) :
        /\ pre_files[q][i].tpl = file_manager.file_configs[k].tpl
        /\ pre_files[q][i].ver # <<>>
        /\ Head(pre_files[q][i].ver) = "v"
        /\ parse_version(pre_files[q][i].ver) # VersionErr}

Expanded == SeqToSet(FileManager_expand_file_patterns(file_manager, pre_files))

\* C22: a scan that meets no unreadable file returns a map whose keys are
\* exactly the expanded paths whose content has a match of their rule's
\* regex, each with the version captured by the first match; a path without
\* a match is absent and nothing is raised.
C22_ScanResult ==
    (fm_call.op = "find_versions_in_files"
        /\ \A q \in Expanded : ~fm_call.unreadable[q]) =>
        /\ fm_call.status = "ok"
        /\ DOMAIN fm_call.versions_found =
              {q \in Expanded : RuleFor(q) # 0 /\ RuleMatches(RuleFor(q), q) # {}}
        /\ \A q \in DOMAIN fm_call.versions_found :
              LET hits == RuleMatches(RuleFor(q), q)
                  first == CHOOSE i \in hits : \A j \in hits : i <= j
              IN  fm_call.versions_found[q] = pre_files[q][first].ver

C22_Witness ==
    /\ fm_call.op = "find_versions_in_files" /\ fm_call.status = "ok"
    /\ fm_call.config = <<Entry(P_R, 1), Entry(L_S, 2)>>
    /\ DOMAIN pre_files = RegPaths
    /\ pre_files[P_SA] = <<Marker(2, V122), Marker(2, V123)>>
    /\ DOMAIN fm_call.versions_found = {P_R, P_SA}
    /\ fm_call.versions_found[P_SA] = V122
    /\ fm_call.reads = {P_R, P_SA}

\* the expanded paths that have a rule, in the order of the scan
ScanOrder == SelectSeq(FileManager_expand_file_patterns(file_manager, pre_files),
                       LAMBDA q : RuleFor(q) # 0)

\* C23: a scan fails with the file error at the first path, in sorted order,
\* that has a rule and cannot be read: it has read the paths up to that one
\* and no later one, and it returns no map; without such a path it succeeds.
C23_ScanStopsAtFirstUnreadable ==
    fm_call.op = "find_versions_in_files" =>
        LET order == ScanOrder
            bad == {i \in 1..Len(order) : fm_call.unreadable[order[i]]}
        IN  IF bad = {}
            THEN fm_call.status = "ok" /\ fm_call.reads = SeqToSet(order)
            ELSE LET first == CHOOSE i \in bad : \A j \in bad : i <= j
                 IN  /\ fm_call.status = "FileError"
                     /\ fm_call.versions_found = EmptyMap
                     /\ fm_call.reads = {order[i] : i \in 1..first}

C23_Witness ==
    /\ fm_call.op = "find_versions_in_files" /\ fm_call.status = "FileError"
    /\ fm_call.config = <<Entry(P_R, 1), Entry(L_S, 2)>>
    /\ DOMAIN pre_files = RegPaths
    /\ ~fm_call.unreadable[P_R] /\ fm_call.unreadable[P_SA]
    /\ fm_call.reads = {P_R, P_SA}
    /\ pre_files[P_SA] = <<Marker(2, V123)>>

\* C25: every path expand_file_patterns returns has a rule, so that neither
\* the scan skips it nor update_file_version fails on it for want of a rule.
C25_AsClaimed ==
    file_manager.constructed =>
        /\ \A q \in Expanded : RuleFor(q) # 0
        /\ (fm_call.op = "update_file_version" /\ fm_call.file_path \in Expanded) =>
              ~(fm_call.status = "FileError" /\ RuleFor(fm_call.file_path) = 0)

\* C26: scanning and writing use, for a path, the first rule in list order
\* whose locator matches it: the scan reports the first text that rule's
\* regex matches, or nothing when only a later rule's regex matches, and a
\* write that returns true has put that rule's template in the place of that
\* rule's first match.
C26_FirstMatchingRule ==
    /\ (fm_call.op = "find_versions_in_files" /\ fm_call.status = "ok") =>
          \A q \in Expanded :
             IF RuleFor(q) # 0 /\ RuleMatches(RuleFor(q), q) # {}
             THEN /\ q \in DOMAIN fm_call.versions_found
                  /\ \E i \in RuleMatches(RuleFor(q), q) :
                        fm_call.versions_found[q] = pre_files[q][i].ver
             ELSE q \notin DOMAIN fm_call.versions_found
    /\ fm_call.op = "update_file_version" =>
          LET q == fm_call.file_path
          IN  /\ fm_call.status = "true" <=>
                    (q \in DOMAIN pre_files /\ RuleFor(q) # 0
                        /\ RuleMatches(RuleFor(q), q) # {})
              /\ fm_call.status = "true" =>
                    \A i \in 1..Len(files[q]) :
                       files[q][i] # pre_files[q][i] =>
                          /\ i \in RuleMatches(RuleFor(q), q)
                          /\ files[q][i] = Marker(file_manager.file_configs[RuleFor(q)].tpl,
                                                  fm_call.new_version)

C26_Witness ==
    /\ fm_call.op = "update_file_version" /\ fm_call.status = "true"
    /\ fm_call.config = <<Entry(L_S, 3), Entry(L_S, 2)>>
    /\ fm_call.file_path = P_SA
    /\ pre_files[P_SA] = <<Marker(2, V123), Marker(3, V122)>>
    /\ files[P_SA] = <<Marker(2, V123), Marker(3, V200)>>

ExceptionClasses ==
    {"VAndRError", "VersionError", "FileError", "GitError",
     "KeyboardInterrupt", "RuntimeError", "SystemExit"}

\* isinstance: the classes an exception of class cls is an instance of
InstanceOf(cls) ==
    CASE cls = "VAndRError" -> {"VAndRError", "Exception", "BaseException"}
      [] cls \in {"VersionError", "FileError", "GitError"} ->
            {cls, "VAndRError", "Exception", "BaseException"}
      [] cls = "RuntimeError" -> {"RuntimeError", "Exception", "BaseException"}
      [] OTHER -> {cls, "BaseException"}

\* the except clauses of execute_command, in the order they are written
ExceptClauses ==
    << [class |-> "VAndRError", code |-> 2],
       [class |-> "VersionError", code |-> 3],
       [class |-> "FileError", code |-> 4],
       [class |-> "GitError", code |-> 5],
       [class |-> "KeyboardInterrupt", code |-> 130],
       [class |-> "Exception", code |-> 1] >>

\* the statements of the try body, and the commands of the argument namespace
Stages == {"validate_version_files_config", "CLIInterface", "cli.execute_command"}

Commands ==
    {"view", "patch", "minor", "major", "release_info", "release_diff",
     "release_last", "release_prepare", "default"}

\* what the try body does: it returns the code of the command, or one of its
\* statements raises
BodyOutcomes ==
    {[stage |-> "cli.execute_command", raised |-> "none", code |-> c] : c \in {0, 1}}
      \cup {[stage |-> st, raised |-> cls, code |-> -1] :
               st \in Stages, cls \in ExceptionClasses}

\* execute_command: the code it returns, or that the exception leaves it
execute_command(body) ==
    IF body.raised = "none" THEN [returned |-> TRUE, code |-> body.code]
    ELSE LET handlers == {i \in 1..Len(ExceptClauses) :
                             ExceptClauses[i].class \in InstanceOf(body.raised)}
         IN  IF handlers = {} THEN [returned |-> FALSE, code |-> -1]
             ELSE LET h == CHOOSE i \in handlers : \A j \in handlers : i <= j
                  IN  [returned |-> TRUE, code |-> ExceptClauses[h].code]

InitMain ==
    /\ files = EmptyMap
    /\ pre_files = files
    /\ WfLocals("off")
    /\ fm_call = NoCall
    /\ rel = NoRel
    /\ LibIdle

CallExecuteCommand ==
    /\ main = NoCall
    /\ \E args \in Commands, body \in BodyOutcomes :
          LET r == execute_command(body)
          IN  main' = [op |-> "execute_command", args |-> args, stage |-> body.stage,
                       raised |-> body.raised, returned |-> r.returned,
                       exit_code |-> r.code]
    /\ UNCHANGED <<files, pre_files, wfVars, fm_call, rel, vm_call, git, file_manager>>

NextMain == CallExecuteCommand

SpecMain == InitMain /\ [][NextMain]_vars

\* ------------------------------------------------------------------
\* Properties of execute_command (under SpecMain)
\* ------------------------------------------------------------------
\* the exit code the convention gives an error of each class
ExitCodeOf(cls) ==
    CASE cls = "VAndRError" -> 2
      [] cls = "VersionError" -> 3
      [] cls = "FileError" -> 4
      [] cls = "GitError" -> 5
      [] cls = "KeyboardInterrupt" -> 130
      [] OTHER -> 1

\* C24: an error raised while the CLI is built or run makes execute_command
\* return the exit code of its own class: 2 for the base VAndRError, 3 for
\* VersionError, 4 for FileError, 5 for GitError, 130 for a keyboard
\* interrupt and 1 for any other exception.
C24_AsClaimed ==
    (main.op = "execute_command" /\ main.raised \notin {"none", "SystemExit"}) =>
        /\ main.returned
        /\ main.exit_code = ExitCodeOf(main.raised)

====
